---------------------------- MODULE Spec2Model ----------------------------
(***************************************************************************)
(* A model of the PDF translator: the entity protector, the chunker, the   *)
(* translation orchestrator, the pipeline coordinator and the task store   *)
(* of the web front ends.                                                  *)
(*                                                                         *)
(* A text is a sequence of code points (a Python str).  Offsets into a     *)
(* text are 0-based, as in the source; At and PySlice convert.             *)
(***************************************************************************)
EXTENDS Integers, Sequences, FiniteSets, TLC

(***************************************************************************)
(* Python str primitives                                                   *)
(***************************************************************************)
Min(a, b) == IF a < b THEN a ELSE b
Max(a, b) == IF a < b THEN b ELSE a
SetMax(S) == CHOOSE x \in S : \A y \in S : y <= x
SetMin(S) == CHOOSE x \in S : \A y \in S : x <= y

\* t[i]
At(t, i) == t[i + 1]

\* t[a:b], out-of-range offsets clamped as Python clamps them
PySlice(t, a, b) ==
    LET lo == Min(Max(a, 0), Len(t))
        hi == Min(Max(b, 0), Len(t))
    IN  IF lo >= hi THEN << >> ELSE SubSeq(t, lo + 1, hi)

\* t[a:]
PyTail(t, a) == PySlice(t, a, Len(t))

\* character classes of the re module, on the ASCII range
Upper == 65..90
Lower == 97..122
Alpha == Upper \cup Lower
Digit == 48..57
\* \w
WordChar == Alpha \cup Digit \cup {95}
\* \s and str.strip(): tab, newline, vertical tab, form feed, return, the four
\* separators 28..31 and space
SpaceChar == {9, 10, 11, 12, 13, 28, 29, 30, 31, 32}

ToLower(c) == IF c \in Upper THEN c + 32 ELSE c

LowerCase(t) == [k \in 1..Len(t) |-> ToLower(t[k])]

\* the end offset of the longest run of characters of Cls that starts at offset i
RunEnd(t, i, Cls) ==
    IF i >= Len(t) THEN i
    ELSE SetMin({k \in i..Len(t) : k = Len(t) \/ At(t, k) \notin Cls})

\* \b at offset i: exactly one of the characters before and after i is a word character
WordBoundary(t, i) ==
    LET before == i > 0 /\ i <= Len(t) /\ At(t, i - 1) \in WordChar
        after  == i >= 0 /\ i < Len(t) /\ At(t, i) \in WordChar
    IN  before # after

\* t[i:].startswith(lit)
LitAt(t, i, lit) == i + Len(lit) <= Len(t) /\ PySlice(t, i, i + Len(lit)) = lit

\* the offset of the first occurrence of sub in t at or after offset i, or -1 (str.find)
FindFrom(t, sub, i) ==
    LET hits == {k \in i..(Len(t) - Len(sub)) : LitAt(t, k, sub)}
    IN  IF hits = {} THEN -1 ELSE SetMin(hits)

\* sub in t
Contains(t, sub) == FindFrom(t, sub, 0) # -1

\* t.replace(old, new) for a non-empty old: every occurrence, leftmost first, not overlapping
RECURSIVE ReplaceFrom(_, _, _, _)
ReplaceFrom(t, old, new, i) ==
    LET k == FindFrom(t, old, i)
    IN  IF k = -1 THEN PyTail(t, i)
        ELSE PySlice(t, i, k) \o new \o ReplaceFrom(t, old, new, k + Len(old))

Replace(t, old, new) == ReplaceFrom(t, old, new, 0)

\* str(n) for n >= 0
RECURSIVE DecStr(_)
DecStr(n) == IF n < 10 THEN <<48 + n>> ELSE DecStr(n \div 10) \o <<48 + (n % 10)>>

\* t.strip()
Strip(t) ==
    LET kept == {k \in 1..Len(t) : t[k] \notin SpaceChar}
    IN  IF kept = {} THEN << >> ELSE SubSeq(t, SetMin(kept), SetMax(kept))

\* the parts one after the other, nothing between them
RECURSIVE JoinTight(_)
JoinTight(parts) ==
    IF parts = << >> THEN << >> ELSE parts[1] \o JoinTight(Tail(parts))

\* ' '.join(parts)
RECURSIVE JoinSpace(_)
JoinSpace(parts) ==
    IF parts = << >> THEN << >>
    ELSE IF Len(parts) = 1 THEN parts[1]
    ELSE parts[1] \o <<32>> \o JoinSpace(Tail(parts))

\* list.sort(key = start, reverse = True): stable, so equal starts keep their order
RECURSIVE InsertDesc(_, _)
InsertDesc(sorted, m) ==
    IF sorted = << >> THEN <<m>>
    ELSE IF Head(sorted).start >= m.start THEN <<Head(sorted)>> \o InsertDesc(Tail(sorted), m)
    ELSE <<m>> \o sorted

RECURSIVE SortDesc(_)
SortDesc(ms) ==
    IF ms = << >> THEN << >>
    ELSE InsertDesc(SortDesc(SubSeq(ms, 1, Len(ms) - 1)), ms[Len(ms)])


(***************************************************************************)
(* Entity protector of src/pdf_translator.py                               *)
(***************************************************************************)
\* [A-Z][a-z]+ at offset i: its end offset, or -1.  Whatever follows it in the name
\* patterns (a space, or \b) is no lower-case letter, so the run is the longest one.
CapWordEnd(t, i) ==
    IF i < Len(t) /\ At(t, i) \in Upper /\ RunEnd(t, i + 1, Lower) > i + 1
    THEN RunEnd(t, i + 1, Lower)
    ELSE -1

\* [A-Z][a-z]+ [A-Z][a-z]+\b at offset i
TwoCapWordsEnd(t, i) ==
    LET e1 == CapWordEnd(t, i)
        e2 == IF e1 # -1 /\ LitAt(t, e1, <<32>>) THEN CapWordEnd(t, e1 + 1) ELSE -1
    IN  IF e2 # -1 /\ WordBoundary(t, e2) THEN e2 ELSE -1

\* the titles of name_patterns[3..6]: Dr, Mr, Mrs, Ms
Titles == << <<68, 114>>, <<77, 114>>, <<77, 114, 115>>, <<77, 115>> >>

\* self.name_patterns[p - 1] matched at offset i: the end offset of the match, or -1
NameMatchEnd(p, t, i) ==
    IF ~WordBoundary(t, i) THEN -1
    ELSE IF p = 1 THEN TwoCapWordsEnd(t, i)
    ELSE IF p = 2 THEN
        LET e1 == CapWordEnd(t, i)
        IN  IF e1 # -1 /\ e1 + 1 < Len(t) /\ At(t, e1) = 32 /\ At(t, e1 + 1) \in Upper
               /\ LitAt(t, e1 + 2, <<46, 32>>)
            THEN LET e2 == CapWordEnd(t, e1 + 4)
                 IN  IF e2 # -1 /\ WordBoundary(t, e2) THEN e2 ELSE -1
            ELSE -1
    ELSE IF p = 3 THEN
        IF i < Len(t) /\ At(t, i) \in Upper /\ LitAt(t, i + 1, <<46, 32>>)
        THEN LET e2 == CapWordEnd(t, i + 3)
             IN  IF e2 # -1 /\ WordBoundary(t, e2) THEN e2 ELSE -1
        ELSE -1
    ELSE
        LET title == Titles[p - 3] \o <<46, 32>>
        IN  IF LitAt(t, i, title) THEN TwoCapWordsEnd(t, i + Len(title)) ELSE -1

\* re.finditer(self.name_patterns[p - 1], text), scanning from offset i: the matches
\* leftmost first, not overlapping
RECURSIVE NameFindIter(_, _, _)
NameFindIter(p, t, i) ==
    LET starts == {k \in i..(Len(t) - 1) : NameMatchEnd(p, t, k) # -1}
    IN  IF starts = {} THEN << >>
        ELSE LET s == SetMin(starts)
                 e == NameMatchEnd(p, t, s)
             IN  <<[start |-> s, end |-> e, text |-> PySlice(t, s, e)]>>
                     \o NameFindIter(p, t, e)

\* the loop over self.name_patterns that fills all_matches: every match of every
\* pattern from pattern p on, in pattern order, with no overlap check
RECURSIVE NameAllMatches(_, _)
NameAllMatches(t, p) ==
    IF p > 7 THEN << >> ELSE NameFindIter(p, t, 0) \o NameAllMatches(t, p + 1)

\* f"__NAME_{entity_counter}__"
NamePlaceholder(n) == <<95, 95, 78, 65, 77, 69, 95>> \o DecStr(n) \o <<95, 95>>

\* the replacement loop: st is [text, entities, counter]; entities is the dict as the
\* sequence of its (placeholder, name) items in insertion order
RECURSIVE NameReplaceLoop(_, _)
NameReplaceLoop(ms, st) ==
    IF ms = << >> THEN st
    ELSE LET m  == Head(ms)
             ph == NamePlaceholder(st.counter)
         IN  NameReplaceLoop(Tail(ms),
                 [text     |-> PySlice(st.text, 0, m.start) \o ph \o PyTail(st.text, m.end),
                  entities |-> Append(st.entities, <<ph, m.text>>),
                  counter  |-> st.counter + 1])

preserve_names_and_entities(text) ==
    LET all_matches == SortDesc(NameAllMatches(text, 1))
        st == NameReplaceLoop(all_matches, [text |-> text, entities |-> << >>, counter |-> 0])
    IN  [text |-> st.text, map |-> st.entities]

RECURSIVE restore_names_and_entities(_, _)
restore_names_and_entities(translated_text, entities) ==
    IF entities = << >> THEN translated_text
    ELSE restore_names_and_entities(
             Replace(translated_text, Head(entities)[1], Head(entities)[2]),
             Tail(entities))

(***************************************************************************)
(* Entity protector of src/webapp/pdf_translator.py                        *)
(***************************************************************************)
\* the separators of a placeholder: zero-width space, non-joiner and joiner
ZWSP == 8203
ZWNJ == 8204
ZWJ == 8205

\* preserve_patterns[0] under re.IGNORECASE: \b[a-z]{3,} [a-z]{3,}\b in either case.
\* Both runs are the longest ones: the first is followed by a space and the second by \b.
ProperNameEnd(t, i) ==
    LET e1 == RunEnd(t, i, Alpha)
        e2 == RunEnd(t, e1 + 1, Alpha)
    IN  IF e1 - i >= 3 /\ LitAt(t, e1, <<32>>) /\ e2 - (e1 + 1) >= 3 /\ WordBoundary(t, e2)
        THEN e2
        ELSE -1

\* the character classes of preserve_patterns[1]: [A-Za-z0-9._%+-], [A-Za-z0-9.-]
\* and [A-Z|a-z]
EmailLocal == Alpha \cup Digit \cup {46, 95, 37, 43, 45}
EmailDomain == Alpha \cup Digit \cup {46, 45}
EmailTld == Alpha \cup {124}

\* preserve_patterns[1], [..]+@[..]+\.[..]{2,}\b at offset i.  The local part runs up to
\* the @.  The domain is greedy: the last dot of its run after which a top-level part
\* fits is taken, and the top-level part is the longest one of two or more characters
\* that ends at a \b.
EmailEnd(t, i) ==
    LET a    == RunEnd(t, i, EmailLocal)
        dmax == RunEnd(t, a + 1, EmailDomain)
        Ends(k) == {e \in (k + 3)..RunEnd(t, k + 1, EmailTld) : WordBoundary(t, e)}
        Dots == {k \in (a + 2)..(dmax - 1) : At(t, k) = 46 /\ Ends(k) # {}}
    IN  IF a > i /\ LitAt(t, a, <<64>>) /\ Dots # {}
        THEN SetMax(Ends(SetMax(Dots)))
        ELSE -1

\* the suffixes of preserve_patterns[2], lower-cased: Inc, Ltd, LLC, Corp, Company,
\* University, College
CompanySuffixes ==
    { <<105, 110, 99>>, <<108, 116, 100>>, <<108, 108, 99>>, <<99, 111, 114, 112>>,
      <<99, 111, 109, 112, 97, 110, 121>>,
      <<117, 110, 105, 118, 101, 114, 115, 105, 116, 121>>,
      <<99, 111, 108, 108, 101, 103, 101>> }

\* \s(?:Inc|...)\b at offset p: the end offset of the suffix, or -1.  No suffix is a
\* prefix of another, so at most one alternative fits.
SuffixEnd(t, p) ==
    LET fit == {s \in CompanySuffixes :
                   /\ p + 1 + Len(s) <= Len(t)
                   /\ LowerCase(PySlice(t, p + 1, p + 1 + Len(s))) = s
                   /\ WordBoundary(t, p + 1 + Len(s))}
    IN  IF p < Len(t) /\ At(t, p) \in SpaceChar /\ fit # {}
        THEN p + 1 + Len(CHOOSE s \in fit : TRUE)
        ELSE -1

\* [A-Z][a-z]+ under re.IGNORECASE at offset i: a run of two or more letters
Word2End(t, i) == IF RunEnd(t, i, Alpha) - i >= 2 THEN RunEnd(t, i, Alpha) ELSE -1

\* (?:\s[A-Z][a-z]+)*\s(?:Inc|...)\b from offset p, the end of a word: the group is
\* greedy, so a longer chain of words is tried before the suffix at p
RECURSIVE CompanyFrom(_, _)
CompanyFrom(t, p) ==
    LET ext    == IF p < Len(t) /\ At(t, p) \in SpaceChar THEN Word2End(t, p + 1) ELSE -1
        deeper == IF ext # -1 THEN CompanyFrom(t, ext) ELSE -1
    IN  IF deeper # -1 THEN deeper ELSE SuffixEnd(t, p)

\* self.preserve_patterns[p - 1], with re.IGNORECASE, matched at offset i: the end
\* offset of the match, or -1
PreserveMatchEnd(p, t, i) ==
    IF ~WordBoundary(t, i) THEN -1
    ELSE IF p = 1 THEN ProperNameEnd(t, i)
    ELSE IF p = 2 THEN EmailEnd(t, i)
    ELSE IF Word2End(t, i) # -1 THEN CompanyFrom(t, Word2End(t, i))
    ELSE -1

\* list(re.finditer(self.preserve_patterns[p - 1], text, re.IGNORECASE)) from offset i
RECURSIVE PreserveFindIter(_, _, _)
PreserveFindIter(p, t, i) ==
    LET starts == {k \in i..(Len(t) - 1) : PreserveMatchEnd(p, t, k) # -1}
    IN  IF starts = {} THEN << >>
        ELSE LET s == SetMin(starts)
                 e == PreserveMatchEnd(p, t, s)
             IN  <<[start |-> s, end |-> e, text |-> PySlice(t, s, e)]>>
                     \o PreserveFindIter(p, t, e)

\* match.start() < existing_match['end'] and match.end() > existing_match['start']
Overlaps(m, existing) == m.start < existing.end /\ m.end > existing.start

\* the inner loop: a match is appended to all_matches unless it overlaps one in it
RECURSIVE AddNonOverlapping(_, _)
AddNonOverlapping(all_matches, ms) ==
    IF ms = << >> THEN all_matches
    ELSE IF \E k \in 1..Len(all_matches) : Overlaps(Head(ms), all_matches[k])
    THEN AddNonOverlapping(all_matches, Tail(ms))
    ELSE AddNonOverlapping(Append(all_matches, Head(ms)), Tail(ms))

\* the loop over self.preserve_patterns from pattern p on
RECURSIVE PreserveAllMatches(_, _, _)
PreserveAllMatches(t, p, all_matches) ==
    IF p > 3 THEN all_matches
    ELSE PreserveAllMatches(t, p + 1,
             AddNonOverlapping(all_matches, PreserveFindIter(p, t, 0)))

\* f"\u200b{placeholder_counter}\u200c{original_text}\u200d"
ProperPlaceholder(n, original_text) ==
    <<ZWSP>> \o DecStr(n) \o <<ZWNJ>> \o original_text \o <<ZWJ>>

\* the replacement loop: st is [text, map, counter]; map is preservation_map as the
\* sequence of its (placeholder, original_text) items in insertion order
RECURSIVE ProperReplaceLoop(_, _)
ProperReplaceLoop(ms, st) ==
    IF ms = << >> THEN st
    ELSE LET m  == Head(ms)
             ph == ProperPlaceholder(st.counter, m.text)
         IN  ProperReplaceLoop(Tail(ms),
                 [text    |-> PySlice(st.text, 0, m.start) \o ph \o PyTail(st.text, m.end),
                  map     |-> Append(st.map, <<ph, m.text>>),
                  counter |-> st.counter + 1])

preserve_proper_nouns(text) ==
    LET all_matches == SortDesc(PreserveAllMatches(text, 1, << >>))
        st == ProperReplaceLoop(all_matches, [text |-> text, map |-> << >>, counter |-> 0])
    IN  [text |-> st.text, map |-> st.map]

\* re.search(r'\u200b(\d+)\u200c(.+?)\u200d', placeholder): the leftmost match.  (\d+)
\* is the whole run of digits; (.+?) is lazy: it ends at the first joiner one or more
\* characters on, and holds no newline.
PlaceholderSearch(ph) ==
    LET DigitsEnd(s) == RunEnd(ph, s + 1, Digit)
        Ends(s) == {e \in (DigitsEnd(s) + 2)..(Len(ph) - 1) :
                       /\ At(ph, e) = ZWJ
                       /\ \A j \in (DigitsEnd(s) + 1)..(e - 1) : At(ph, j) # 10}
        starts  == {s \in 0..(Len(ph) - 1) :
                       /\ At(ph, s) = ZWSP
                       /\ DigitsEnd(s) > s + 1
                       /\ LitAt(ph, DigitsEnd(s), <<ZWNJ>>)
                       /\ Ends(s) # {}}
    IN  IF starts = {} THEN [found |-> FALSE]
        ELSE LET s == SetMin(starts)
             IN  [found  |-> TRUE,
                  number |-> PySlice(ph, s + 1, DigitsEnd(s)),
                  text   |-> PySlice(ph, DigitsEnd(s) + 1, SetMin(Ends(s)))]

\* the first loop of restore_proper_nouns: st is [text, count]
RECURSIVE ExactPass(_, _)
ExactPass(map, st) ==
    IF map = << >> THEN st
    ELSE LET placeholder   == Head(map)[1]
             original_text == Head(map)[2]
         IN  IF Contains(st.text, placeholder)
             THEN ExactPass(Tail(map),
                      [text  |-> Replace(st.text, placeholder, original_text),
                       count |-> st.count + 1])
             ELSE ExactPass(Tail(map), st)

\* patterns_to_try
PatternsToTry(number, expected_text) ==
    << number \o expected_text, number \o <<32>> \o expected_text, expected_text >>

\* the loop over patterns_to_try from pattern k on: the first pattern that is in the
\* text and is not the original text is replaced everywhere, and the loop breaks
RECURSIVE TryPatterns(_, _, _, _)
TryPatterns(patterns, k, original_text, st) ==
    IF k > Len(patterns) THEN st
    ELSE IF Contains(st.text, patterns[k]) /\ patterns[k] # original_text
    THEN [text  |-> Replace(st.text, patterns[k], original_text),
          count |-> st.count + 1]
    ELSE TryPatterns(patterns, k + 1, original_text, st)

\* the second loop of restore_proper_nouns, over every item of the map
RECURSIVE PartialPass(_, _)
PartialPass(map, st) ==
    IF map = << >> THEN st
    ELSE LET match == PlaceholderSearch(Head(map)[1])
         IN  IF match.found
             THEN PartialPass(Tail(map),
                      TryPatterns(PatternsToTry(match.number, match.text), 1,
                                  Head(map)[2], st))
             ELSE PartialPass(Tail(map), st)

\* restore_proper_nouns with its diagnostic: [text, count] is the returned text and
\* restored_count
RestoreProper(translated_text, preservation_map) ==
    PartialPass(preservation_map,
                ExactPass(preservation_map, [text |-> translated_text, count |-> 0]))

restore_proper_nouns(translated_text, preservation_map) ==
    RestoreProper(translated_text, preservation_map).text

(***************************************************************************)
(* Chunkers of the two translate_text_chunks                               *)
(***************************************************************************)
\* re.split(r'(?<=[.!?])\s+', text) from offset from, where a piece starts: a separator
\* is a run of white space that follows a '.', '!' or '?'
RECURSIVE SplitSentences(_, _)
SplitSentences(t, from) ==
    LET seps == {k \in Max(from, 1)..(Len(t) - 1) :
                    At(t, k - 1) \in {46, 33, 63} /\ At(t, k) \in SpaceChar}
    IN  IF seps = {} THEN <<PyTail(t, from)>>
        ELSE <<PySlice(t, from, SetMin(seps))>>
                 \o SplitSentences(t, RunEnd(t, SetMin(seps), SpaceChar))

\* the loop over sentences of src/pdf_translator.py: st is [chunks, current_chunk]
RECURSIVE ChunkLoop(_, _, _)
ChunkLoop(sentences, size, st) ==
    IF sentences = << >> THEN st
    ELSE LET sentence == Head(sentences)
         IN  IF Len(st.current_chunk \o sentence) > size
             THEN ChunkLoop(Tail(sentences), size,
                      [chunks |-> IF st.current_chunk # << >>
                                  THEN Append(st.chunks, Strip(st.current_chunk))
                                  ELSE st.chunks,
                       current_chunk |-> sentence])
             ELSE ChunkLoop(Tail(sentences), size,
                      [chunks |-> st.chunks,
                       current_chunk |-> st.current_chunk
                           \o (IF st.current_chunk # << >> THEN <<32>> ELSE << >>)
                           \o sentence])

\* Step 2 of translate_text_chunks in src/pdf_translator.py
core_chunks(protected_text, size) ==
    LET st == ChunkLoop(SplitSentences(protected_text, 0), size,
                        [chunks |-> << >>, current_chunk |-> << >>])
    IN  IF st.current_chunk # << >>
        THEN Append(st.chunks, Strip(st.current_chunk))
        ELSE st.chunks

\* [text[i:i + self.chunk_size] for i in range(0, len(text), self.chunk_size)] of
\* src/webapp/pdf_translator.py, from offset i
RECURSIVE web_chunks_from(_, _, _)
web_chunks_from(text, size, i) ==
    IF i >= Len(text) THEN << >>
    ELSE <<PySlice(text, i, i + size)>> \o web_chunks_from(text, size, i + size)

web_chunks(text, size) == web_chunks_from(text, size, 0)

(***************************************************************************)
(* Inputs of the protector and of the chunkers                             *)
(***************************************************************************)
RECURSIVE Concat(_)
Concat(parts) == IF parts = << >> THEN << >> ELSE Head(parts) \o Concat(Tail(parts))

\* the longest input is made of MaxFrags fragments
MaxFrags == 3
\* the most names in one input
MaxNames == 12

\* "John Smith"
JohnSmith == <<74, 111, 104, 110, 32, 83, 109, 105, 116, 104>>
\* "Ann Lee"
AnnLee == <<65, 110, 110, 32, 76, 101, 101>>
\* "Bob Ray"
BobRay == <<66, 111, 98, 32, 82, 97, 121>>
\* "Dr. Jane Doe"
DrJaneDoe == <<68, 114, 46, 32, 74, 97, 110, 101, 32, 68, 111, 101>>

\* "John Smith", "Ann Lee", "Dr. ", "0", " ", ", ", "a@b.co", " Inc"
Fragments ==
    { JohnSmith, AnnLee, <<68, 114, 46, 32>>, <<48>>, <<32>>, <<44, 32>>,
      <<97, 64, 98, 46, 99, 111>>, <<32, 73, 110, 99>> }

FragTexts == UNION { {Concat(fs) : fs \in [1..n -> Fragments]} : n \in 1..MaxFrags }

\* n names separated by ", ": "Ann Lee" everywhere but at place odd, "Bob Ray"
RECURSIVE NameList(_, _, _)
NameList(n, odd, k) ==
    IF k > n THEN << >>
    ELSE (IF k = odd THEN BobRay ELSE AnnLee)
             \o (IF k < n THEN <<44, 32>> ELSE << >>)
             \o NameList(n, odd, k + 1)

ManyNames == { NameList(n, odd, 1) : n \in 4..MaxNames, odd \in 0..1 }

\* "To:  John Smith - 2024-01-15 - no. 17 - Dr. Jane Doe": "John Smith" at offset 5
\* and "Dr. Jane Doe" at offset 40
TwoNamesText ==
    <<84, 111, 58, 32, 32>> \o JohnSmith
        \o <<32, 45, 32, 50, 48, 50, 52, 45, 48, 49, 45, 49, 53, 32, 45, 32,
             110, 111, 46, 32, 49, 55, 32, 45, 32>>
        \o DrJaneDoe

ProtectInputs == FragTexts \cup ManyNames \cup {TwoNamesText}

\* the longest input is made of MaxChunkFrags fragments
MaxChunkFrags == 4
\* chunk sizes run from 1 to MaxChunkSize
MaxChunkSize == 8

\* "ab.", "cd!", "e?", "x", " ", a newline
ChunkFragments == { <<97, 98, 46>>, <<99, 100, 33>>, <<101, 63>>, <<120>>, <<32>>, <<10>> }

\* translate_text_chunks returns a text of white space before it chunks
ChunkInputs ==
    { t \in UNION { {Concat(fs) : fs \in [1..n -> ChunkFragments]} : n \in 1..MaxChunkFrags } :
          Strip(t) # << >> }

(***************************************************************************)
(* State                                                                   *)
(***************************************************************************)
\* the protector on its own
VARIABLES p_impl, p_pc, p_text, p_protected, p_map, p_how, p_translated, p_restored

\* the chunkers on their own
VARIABLES c_impl, c_pc, c_text, c_size, c_chunks

\* a call of translate_single_pdf or of batch_translate_pdfs: the module that runs, the
\* call, the matched files, the place in them, the two result lists, how each run of the
\* batch ended, the caller's source language, and the locals of the run of
\* translate_single_pdf on pdf_files[r_idx]
VARIABLES r_impl, r_mode, r_dir_exists, r_pdf_files, r_idx, r_translated_files,
          r_failed_files, r_results, r_pc, r_source_lang, r_lang, r_text, r_protected_text,
          r_entities, r_chunks, r_translated_chunks, r_i, r_attempt,
          r_combined_translation, r_final_translation, r_rendered, r_outcome,
          r_output_path, r_steps

\* the task store of a web front end: the application, the files of the upload, the
\* files upload_file is through with, its task_ids, active_translations, each worker's
\* place in translate_pdf_background, the calls of socketio.emit for each task and the
\* last answer of get_status
VARIABLES t_app, t_files, t_i, t_task_ids, t_active, t_pc, t_emitted, t_answer

\* main() of the command line front end: the value of -l, the branch taken (-f or
\* --batch -d), its place in the branch and the source language handed to the translator
VARIABLES l_language, l_mode, l_pc, l_source_lang

\* runs of translate_single_pdf in the worker threads of a web front end, on its one
\* PDFTranslator: the module, the source language of the upload, each run's file and place,
\* the frames of local variables, the backend results each run got and what each run
\* returned
VARIABLES s_impl, s_source_lang, s_files, s_pc, s_frames, s_calls, s_return

p_vars == <<p_impl, p_pc, p_text, p_protected, p_map, p_how, p_translated, p_restored>>
c_vars == <<c_impl, c_pc, c_text, c_size, c_chunks>>
r_batch_vars == <<r_impl, r_mode, r_dir_exists, r_pdf_files, r_idx, r_translated_files,
                  r_failed_files, r_results, r_source_lang>>
r_run_vars == <<r_lang, r_text, r_protected_text, r_entities, r_chunks,
                r_translated_chunks, r_i, r_attempt, r_combined_translation,
                r_final_translation, r_rendered, r_outcome, r_output_path, r_steps>>
r_vars == <<r_batch_vars, r_pc, r_run_vars>>
t_vars == <<t_app, t_files, t_i, t_task_ids, t_active, t_pc, t_emitted, t_answer>>

l_vars == <<l_language, l_mode, l_pc, l_source_lang>>

s_vars == <<s_impl, s_source_lang, s_files, s_pc, s_frames, s_calls, s_return>>

vars == <<p_vars, c_vars, r_vars, t_vars, l_vars, s_vars>>

SharedIdle ==
    /\ s_impl = "none" /\ s_source_lang = "none" /\ s_files = << >> /\ s_pc = << >>
    /\ s_frames = << >> /\ s_calls = << >> /\ s_return = << >>

CliIdle ==
    /\ l_language = "none" /\ l_mode = "none" /\ l_pc = "idle"
    /\ l_source_lang = "none"

ProtectIdle ==
    /\ p_impl = "none" /\ p_pc = "idle" /\ p_text = << >> /\ p_protected = << >>
    /\ p_map = << >> /\ p_how = "none" /\ p_translated = << >> /\ p_restored = << >>

ChunkIdle ==
    c_impl = "none" /\ c_pc = "idle" /\ c_text = << >> /\ c_size = 0 /\ c_chunks = << >>

\* the locals of translate_single_pdf before a run
RunFresh ==
    /\ r_lang = "none" /\ r_text = << >> /\ r_protected_text = << >> /\ r_entities = << >>
    /\ r_chunks = << >> /\ r_translated_chunks = << >> /\ r_i = 0 /\ r_attempt = 0
    /\ r_combined_translation = << >> /\ r_final_translation = << >>
    /\ r_rendered = << >> /\ r_outcome = "none" /\ r_output_path = "" /\ r_steps = << >>

RunIdle ==
    /\ r_impl = "none" /\ r_mode = "none" /\ r_dir_exists = FALSE /\ r_pdf_files = << >>
    /\ r_idx = 0 /\ r_translated_files = << >> /\ r_failed_files = << >>
    /\ r_results = << >> /\ r_pc = "idle" /\ r_source_lang = "none"
    /\ RunFresh

TasksIdle ==
    /\ t_app = "none" /\ t_files = << >> /\ t_i = 0 /\ t_task_ids = << >>
    /\ t_active = << >> /\ t_pc = << >> /\ t_emitted = << >> /\ t_answer = "none"

(***************************************************************************)
(* The protector on its own: protect, a translation that keeps the text or *)
(* strips the separators of the placeholders, restore                      *)
(***************************************************************************)
ProtectInit ==
    /\ p_impl \in {"core", "webapp"}
    /\ p_text \in ProtectInputs
    /\ p_pc = "input"
    /\ p_protected = << >> /\ p_map = << >> /\ p_how = "none"
    /\ p_translated = << >> /\ p_restored = << >>
    /\ ChunkIdle /\ RunIdle /\ TasksIdle /\ CliIdle /\ SharedIdle

\* protect of either module
Protect ==
    /\ p_pc = "input"
    /\ LET r == IF p_impl = "core" THEN preserve_names_and_entities(p_text)
                ELSE preserve_proper_nouns(p_text)
       IN  p_protected' = r.text /\ p_map' = r.map
    /\ p_pc' = "protected"
    /\ UNCHANGED <<p_impl, p_text, p_how, p_translated, p_restored>>
    /\ UNCHANGED <<c_vars, r_vars, t_vars, l_vars, s_vars>>

\* the translation returns the protected text as it is
TranslateIdentity ==
    /\ p_pc = "protected"
    /\ p_translated' = p_protected
    /\ p_how' = "identity"
    /\ p_pc' = "translated"
    /\ UNCHANGED <<p_impl, p_text, p_protected, p_map, p_restored>>
    /\ UNCHANGED <<c_vars, r_vars, t_vars, l_vars, s_vars>>

\* the placeholders of the map from item k on, with their separators stripped: what is
\* left of placeholder k - 1 is its counter and its text, with a space between if sp
RECURSIVE StripSeparators(_, _, _, _)
StripSeparators(text, map, k, sp) ==
    IF k > Len(map) THEN text
    ELSE StripSeparators(
             Replace(text, map[k][1],
                     DecStr(k - 1) \o (IF sp THEN <<32>> ELSE << >>) \o map[k][2]),
             map, k + 1, sp)

\* the translation strips the separators of every placeholder and keeps the rest
TranslateStripped(sp) ==
    /\ p_pc = "protected"
    /\ p_impl = "webapp"
    /\ p_map # << >>
    /\ p_translated' = StripSeparators(p_protected, p_map, 1, sp)
    /\ p_how' = "stripped"
    /\ p_pc' = "translated"
    /\ UNCHANGED <<p_impl, p_text, p_protected, p_map, p_restored>>
    /\ UNCHANGED <<c_vars, r_vars, t_vars, l_vars, s_vars>>

\* restore of either module
Restore ==
    /\ p_pc = "translated"
    /\ p_restored' = IF p_impl = "core"
                     THEN restore_names_and_entities(p_translated, p_map)
                     ELSE restore_proper_nouns(p_translated, p_map)
    /\ p_pc' = "restored"
    /\ UNCHANGED <<p_impl, p_text, p_protected, p_map, p_how, p_translated>>
    /\ UNCHANGED <<c_vars, r_vars, t_vars, l_vars, s_vars>>

ProtectNext ==
    \/ Protect
    \/ TranslateIdentity
    \/ \E sp \in BOOLEAN : TranslateStripped(sp)
    \/ Restore

SpecProtect == ProtectInit /\ [][ProtectNext]_vars

(***************************************************************************)
(* The chunkers on their own                                               *)
(***************************************************************************)
ChunkInit ==
    /\ c_impl \in {"core", "webapp"}
    /\ c_text \in ChunkInputs
    /\ c_size \in 1..MaxChunkSize
    /\ c_pc = "input"
    /\ c_chunks = << >>
    /\ ProtectIdle /\ RunIdle /\ TasksIdle /\ CliIdle /\ SharedIdle

\* the chunking of src/pdf_translator.py
ChunkCore ==
    /\ c_pc = "input" /\ c_impl = "core"
    /\ c_chunks' = core_chunks(c_text, c_size)
    /\ c_pc' = "chunked"
    /\ UNCHANGED <<c_impl, c_text, c_size>>
    /\ UNCHANGED <<p_vars, r_vars, t_vars, l_vars, s_vars>>

\* the chunking of src/webapp/pdf_translator.py
ChunkWeb ==
    /\ c_pc = "input" /\ c_impl = "webapp"
    /\ c_chunks' = web_chunks(c_text, c_size)
    /\ c_pc' = "chunked"
    /\ UNCHANGED <<c_impl, c_text, c_size>>
    /\ UNCHANGED <<p_vars, r_vars, t_vars, l_vars, s_vars>>

ChunkNext == ChunkCore \/ ChunkWeb

SpecChunk == ChunkInit /\ [][ChunkNext]_vars

(***************************************************************************)
(* The pipeline: translate_single_pdf and batch_translate_pdfs of the two  *)
(* modules, with the PDF reader, the translation backend and the PDF       *)
(* writer as the environment                                               *)
(***************************************************************************)
\* self.chunk_size, 3000 in the source, scaled to the short pages below
chunk_size == 5
\* the most files a batch matches
MaxFiles == 3

\* the files below the input directory: a.pdf has one page, "Hi Ann Lee. Ok."; sub/a.pdf,
\* in a directory of its own, has the pages "Ab." and "Cd."; blank.pdf has one page of
\* white space; broken.pdf cannot be read; gone.pdf does not exist
ReadableFiles == {"a.pdf", "sub/a.pdf", "blank.pdf"}
ExistingFiles == ReadableFiles \cup {"broken.pdf"}
AllFiles == ExistingFiles \cup {"gone.pdf"}

\* page.extract_text() of every page of a readable file
FilePages(f) ==
    IF f = "a.pdf" THEN << <<72, 105, 32, 65, 110, 110, 32, 76, 101, 101, 46, 32, 79, 107, 46>> >>
    ELSE IF f = "sub/a.pdf" THEN << <<65, 98, 46>>, <<67, 100, 46>> >>
    ELSE << <<32>> >>

\* the loop over pdf_reader.pages: text += page.extract_text() + "\n\n"
RECURSIVE PagesText(_)
PagesText(pages) ==
    IF pages = << >> THEN << >> ELSE Head(pages) \o <<10, 10>> \o PagesText(Tail(pages))

\* what extract_text_from_pdf returns for a readable file
extract_text_from_pdf(f) == Strip(PagesText(FilePages(f)))

\* a test of the text that every text passes
NoTextOmitted(t) == FALSE

\* not text.strip(), the test of translate_single_pdf and of translate_text_chunks
NoTextFound(t) == Strip(t) = << >>

\* the text the backend returns for a chunk when it returns one: the chunk in upper
\* case, which keeps a placeholder of src/pdf_translator.py as it is
ToUpper(c) == IF c \in Lower THEN c - 32 ELSE c
BackendText(chunk) == [k \in 1..Len(chunk) |-> ToUpper(chunk[k])]

\* the text the backend returns for a chunk when it returns one that has lost the
\* placeholders: the chunk in lower case
BackendMangled(chunk) == LowerCase(chunk)

\* what a backend translate call can do: return a text that keeps the placeholders
\* ("ok"), return a text that has lost them ("mangled"), return an empty text ("empty"),
\* or raise ("raise")
CallResults == {"ok", "mangled", "empty", "raise"}

\* a fallback that drops the text of the chunk
FallbackDropped(chunk) == << >>

\* the entry of translated_chunks for a chunk that no attempt translated: the chunk
FallbackText(chunk) == chunk

\* the attempts translate_text_chunks makes for one chunk: range(2), or the single call
Attempts(impl) == IF impl = "core" THEN 2 ELSE 1

\* the rendering right after the join, in either module
RestoreSkipped(impl) == "render"

\* what follows ' '.join(translated_chunks): the restore of src/pdf_translator.py, or
\* the return of src/webapp/pdf_translator.py and the rendering
AfterJoin(impl) == IF impl = "core" THEN "restore" ELSE "render"

\* input_path.name: the last component of the path
Name(path) ==
    LET slashes == {k \in 1..Len(path) : SubSeq(path, k, k) = "/"}
    IN  IF slashes = {} THEN path ELSE SubSeq(path, SetMax(slashes) + 1, Len(path))

\* input_path.stem: the name without its last suffix
Stem(path) ==
    LET name == Name(path)
        dots == {k \in 2..(Len(name) - 1) : SubSeq(name, k, k) = "."}
    IN  IF dots = {} THEN name ELSE SubSeq(name, 1, SetMax(dots) - 1)

\* self.output_dir / f"{input_path.stem}_translated_en.pdf"
OutputPath(name) == "translated_pdfs/" \o Stem(name) \o "_translated_en.pdf"

\* an entry of the log of a run; src and dest are the languages of a backend translate
\* call
Step(op, chunk, attempt, result) ==
    [op |-> op, chunk |-> chunk, attempt |-> attempt, result |-> result,
     src |-> "", dest |-> ""]

\* self.translator.translate(chunk, src = source_lang, dest = target_lang) in the log
TranslateStep(chunk, attempt, result, source_lang, target_lang) ==
    [op |-> "translate", chunk |-> chunk, attempt |-> attempt, result |-> result,
     src |-> source_lang, dest |-> target_lang]

\* a run that asks the detector whatever the caller passed
DetectAlways(source_lang) == TRUE

\* if source_lang == 'auto'
NeedsDetection(source_lang) == source_lang = "auto"

\* what self.translator.detect can do: name a language, or raise
DetectResults == {"fr", "de", "raise"}

\* a detector that answers 'auto' when the backend raises
detect_language_auto(detection) == IF detection = "raise" THEN "auto" ELSE detection

\* detect_language(text)['language']: detection.lang, or 'unknown' from the except branch
detect_language(detection) == IF detection = "raise" THEN "unknown" ELSE detection

\* the lists of files input_dir.glob(pattern) can return, '**/*.pdf' among the patterns: up
\* to MaxFiles distinct existing files, in any order
BatchLists ==
    UNION { {fs \in [1..n -> ExistingFiles] : \A a, b \in 1..n : a # b => fs[a] # fs[b]}
                : n \in 0..MaxFiles }

\* a call of translate_single_pdf on one file, or of batch_translate_pdfs on a directory
Init ==
    /\ r_impl \in {"core", "webapp"}
    /\ r_source_lang \in {"auto", "es"}
    /\ \/ /\ r_mode = "single" /\ r_dir_exists = TRUE
          /\ r_pdf_files \in {<<f>> : f \in AllFiles}
          /\ r_idx = 1 /\ r_pc = "check_input"
       \/ /\ r_mode = "batch"
          /\ \/ r_dir_exists = TRUE /\ r_pdf_files \in BatchLists
             \/ r_dir_exists = FALSE /\ r_pdf_files = << >>
          /\ r_idx = 0 /\ r_pc = "batch_begin"
    /\ r_translated_files = << >> /\ r_failed_files = << >> /\ r_results = << >>
    /\ RunFresh
    /\ ProtectIdle /\ ChunkIdle /\ TasksIdle /\ CliIdle /\ SharedIdle

\* the file of the current run
pdf_file == r_pdf_files[r_idx]

\* the run raises: translate_single_pdf ends with the exception
Raise(exception) == r_pc' = "failed" /\ r_outcome' = exception

\* batch_translate_pdfs up to its loop
BatchBegin ==
    /\ r_pc = "batch_begin"
    /\ IF ~r_dir_exists THEN r_pc' = "batch_failed" /\ r_idx' = r_idx
       ELSE IF r_pdf_files = << >> THEN r_pc' = "batch_done" /\ r_idx' = r_idx
       ELSE r_pc' = "check_input" /\ r_idx' = 1
    /\ UNCHANGED <<r_impl, r_mode, r_dir_exists, r_pdf_files, r_translated_files,
                   r_failed_files, r_results, r_source_lang, r_run_vars>>
    /\ UNCHANGED <<p_vars, c_vars, t_vars, l_vars, s_vars>>

\* translate_single_pdf: input_path.exists()
CheckInput ==
    /\ r_pc = "check_input"
    /\ IF pdf_file \notin ExistingFiles
       THEN Raise("FileNotFoundError")
       ELSE r_pc' = "extract" /\ r_outcome' = r_outcome
    /\ UNCHANGED <<r_batch_vars, r_lang, r_text, r_protected_text, r_entities, r_chunks,
                   r_translated_chunks, r_i, r_attempt, r_combined_translation,
                   r_final_translation, r_rendered, r_output_path, r_steps>>
    /\ UNCHANGED <<p_vars, c_vars, t_vars, l_vars, s_vars>>

\* translate_single_pdf: extract_text_from_pdf and the test of its text
Extract ==
    /\ r_pc = "extract"
    /\ IF pdf_file \notin ReadableFiles
       THEN /\ r_steps' = Append(r_steps, Step("extract", 0, 0, "raise"))
            /\ Raise("ExtractError")
            /\ r_text' = r_text /\ r_lang' = r_lang
       ELSE /\ r_steps' = Append(r_steps, Step("extract", 0, 0, "ok"))
            /\ r_text' = extract_text_from_pdf(pdf_file)
            /\ IF NoTextFound(r_text')
               THEN Raise("ValueError") /\ r_lang' = r_lang
               ELSE IF NeedsDetection(r_source_lang)
               THEN r_pc' = "detect" /\ r_outcome' = r_outcome /\ r_lang' = r_lang
               ELSE r_pc' = "translate" /\ r_outcome' = r_outcome /\ r_lang' = r_source_lang
    /\ UNCHANGED <<r_batch_vars, r_protected_text, r_entities, r_chunks,
                   r_translated_chunks, r_i, r_attempt, r_combined_translation,
                   r_final_translation, r_rendered, r_output_path>>
    /\ UNCHANGED <<p_vars, c_vars, t_vars, l_vars, s_vars>>

\* detect_language: the backend names a language, or fails and 'unknown' is returned;
\* source_lang = detection['language']
Detect(detection) ==
    /\ r_pc = "detect"
    /\ r_lang' = detect_language(detection)
    /\ r_steps' = Append(r_steps,
                         [Step("detect", 0, 0, IF detection = "raise" THEN "raise" ELSE "ok")
                             EXCEPT !.src = r_lang'])
    /\ r_pc' = "translate"
    /\ UNCHANGED <<r_batch_vars, r_text, r_protected_text, r_entities, r_chunks,
                   r_translated_chunks, r_i, r_attempt, r_combined_translation,
                   r_final_translation, r_rendered, r_outcome, r_output_path>>
    /\ UNCHANGED <<p_vars, c_vars, t_vars, l_vars, s_vars>>

\* translate_text_chunks up to its loop: the return of a blank text, the protection of
\* src/pdf_translator.py, the chunking
BeginTranslate ==
    /\ r_pc = "translate"
    /\ IF NoTextFound(r_text)
       THEN /\ r_final_translation' = r_text
            /\ r_pc' = "render"
            /\ UNCHANGED <<r_protected_text, r_entities, r_chunks, r_i, r_steps>>
       ELSE /\ r_final_translation' = r_final_translation
            /\ IF r_impl = "core"
               THEN LET r == preserve_names_and_entities(r_text)
                    IN  /\ r_protected_text' = r.text /\ r_entities' = r.map
                        /\ r_chunks' = core_chunks(r.text, chunk_size)
                        /\ r_steps' = r_steps \o <<Step("protect", 0, 0, "ok"),
                                                   Step("chunk", 0, 0, "ok")>>
               ELSE /\ r_protected_text' = r_protected_text /\ r_entities' = r_entities
                    /\ r_chunks' = web_chunks(r_text, chunk_size)
                    /\ r_steps' = Append(r_steps, Step("chunk", 0, 0, "ok"))
            /\ r_i' = 0
            /\ r_pc' = IF r_chunks' = << >> THEN "join" ELSE "call"
    /\ UNCHANGED <<r_batch_vars, r_lang, r_text, r_translated_chunks, r_attempt,
                   r_combined_translation, r_rendered, r_outcome, r_output_path>>
    /\ UNCHANGED <<p_vars, c_vars, t_vars, l_vars, s_vars>>

\* the chunk of the current iteration of the loop over chunks
chunk_i == r_chunks[r_i + 1]

\* the end of an iteration of the loop over chunks: the next chunk, or the end of the loop
NextChunk ==
    IF r_i + 1 < Len(r_chunks)
    THEN r_i' = r_i + 1 /\ r_attempt' = 0 /\ r_pc' = "pace"
    ELSE r_i' = r_i /\ r_attempt' = r_attempt /\ r_pc' = "join"

\* time.sleep(self.delay_between_requests), at the head of every iteration but the first
Pace ==
    /\ r_pc = "pace"
    /\ r_steps' = Append(r_steps, Step("sleep_pace", r_i, 0, "ok"))
    /\ r_pc' = "call"
    /\ UNCHANGED <<r_batch_vars, r_lang, r_text, r_protected_text, r_entities, r_chunks,
                   r_translated_chunks, r_i, r_attempt, r_combined_translation,
                   r_final_translation, r_rendered, r_outcome, r_output_path>>
    /\ UNCHANGED <<p_vars, c_vars, t_vars, l_vars, s_vars>>

\* self.translator.translate(chunk, src = source_lang, dest = 'en') and what the loop
\* does with its result
Call(result) ==
    /\ r_pc = "call"
    /\ r_steps' = Append(r_steps, TranslateStep(r_i, r_attempt, result, r_lang, "en"))
    /\ IF result \in {"ok", "mangled"}
       THEN /\ r_translated_chunks' =
                   Append(r_translated_chunks,
                          IF result = "ok" THEN BackendText(chunk_i)
                          ELSE BackendMangled(chunk_i))
            /\ NextChunk
       ELSE IF r_impl = "webapp"
       THEN /\ r_translated_chunks' =
                   Append(r_translated_chunks,
                          IF result = "empty" THEN << >> ELSE FallbackText(chunk_i))
            /\ NextChunk
       ELSE IF r_attempt + 1 < Attempts(r_impl)
       THEN /\ r_translated_chunks' = r_translated_chunks
            /\ r_i' = r_i
            /\ r_attempt' = r_attempt + 1
            /\ r_pc' = IF result = "raise" THEN "backoff" ELSE "call"
       ELSE /\ r_translated_chunks' = Append(r_translated_chunks, FallbackText(chunk_i))
            /\ NextChunk
    /\ UNCHANGED <<r_batch_vars, r_lang, r_text, r_protected_text, r_entities, r_chunks,
                   r_combined_translation, r_final_translation, r_rendered, r_outcome,
                   r_output_path>>
    /\ UNCHANGED <<p_vars, c_vars, t_vars, l_vars, s_vars>>

\* time.sleep(0.5), after the first attempt raised
Backoff ==
    /\ r_pc = "backoff"
    /\ r_steps' = Append(r_steps, Step("sleep_backoff", r_i, 0, "ok"))
    /\ r_pc' = "call"
    /\ UNCHANGED <<r_batch_vars, r_lang, r_text, r_protected_text, r_entities, r_chunks,
                   r_translated_chunks, r_i, r_attempt, r_combined_translation,
                   r_final_translation, r_rendered, r_outcome, r_output_path>>
    /\ UNCHANGED <<p_vars, c_vars, t_vars, l_vars, s_vars>>

\* ' '.join(translated_chunks); src/webapp/pdf_translator.py returns it
Join ==
    /\ r_pc = "join"
    /\ r_combined_translation' = JoinSpace(r_translated_chunks)
    /\ r_steps' = Append(r_steps, Step("join", 0, 0, "ok"))
    /\ r_pc' = AfterJoin(r_impl)
    /\ r_final_translation' = IF r_pc' = "render" THEN r_combined_translation'
                              ELSE r_final_translation
    /\ UNCHANGED <<r_batch_vars, r_lang, r_text, r_protected_text, r_entities, r_chunks,
                   r_translated_chunks, r_i, r_attempt, r_rendered, r_outcome,
                   r_output_path>>
    /\ UNCHANGED <<p_vars, c_vars, t_vars, l_vars, s_vars>>

\* restore_names_and_entities(combined_translation, entities) and the return
RunRestore ==
    /\ r_pc = "restore"
    /\ r_final_translation' = restore_names_and_entities(r_combined_translation, r_entities)
    /\ r_steps' = Append(r_steps, Step("restore", 0, 0, "ok"))
    /\ r_pc' = "render"
    /\ UNCHANGED <<r_batch_vars, r_lang, r_text, r_protected_text, r_entities, r_chunks,
                   r_translated_chunks, r_i, r_attempt, r_combined_translation,
                   r_rendered, r_outcome, r_output_path>>
    /\ UNCHANGED <<p_vars, c_vars, t_vars, l_vars, s_vars>>

\* the output path and create_pdf_from_text, which writes the file or raises
Render(ok) ==
    /\ r_pc = "render"
    /\ r_output_path' = OutputPath(pdf_file)
    /\ r_rendered' = r_final_translation
    /\ r_steps' = Append(r_steps, Step("render", 0, 0, IF ok THEN "ok" ELSE "raise"))
    /\ IF ok THEN r_pc' = "done" /\ r_outcome' = "ok" ELSE Raise("RenderError")
    /\ UNCHANGED <<r_batch_vars, r_lang, r_text, r_protected_text, r_entities, r_chunks,
                   r_translated_chunks, r_i, r_attempt, r_combined_translation,
                   r_final_translation>>
    /\ UNCHANGED <<p_vars, c_vars, t_vars, l_vars, s_vars>>

\* a failure that leaves failed_files as it is
FailureForgotten(failed_files, f) == failed_files

\* failed_files.append(str(pdf_file))
RecordFailure(failed_files, f) == Append(failed_files, f)

\* the body of the loop of batch_translate_pdfs after translate_single_pdf has returned
\* or raised, and the step to the next file with fresh locals
BatchCollect ==
    /\ r_mode = "batch"
    /\ r_pc \in {"done", "failed"}
    /\ IF r_pc = "done"
       THEN /\ r_translated_files' = Append(r_translated_files, r_output_path)
            /\ r_failed_files' = r_failed_files
       ELSE /\ r_translated_files' = r_translated_files
            /\ r_failed_files' = RecordFailure(r_failed_files, pdf_file)
    /\ r_results' = Append(r_results, r_outcome)
    /\ IF r_idx < Len(r_pdf_files)
       THEN r_idx' = r_idx + 1 /\ r_pc' = "check_input"
       ELSE r_idx' = r_idx /\ r_pc' = "batch_done"
    /\ r_lang' = "none" /\ r_text' = << >> /\ r_protected_text' = << >>
    /\ r_entities' = << >> /\ r_chunks' = << >> /\ r_translated_chunks' = << >>
    /\ r_i' = 0 /\ r_attempt' = 0 /\ r_combined_translation' = << >>
    /\ r_final_translation' = << >> /\ r_rendered' = << >> /\ r_outcome' = "none"
    /\ r_output_path' = "" /\ r_steps' = << >>
    /\ UNCHANGED <<r_impl, r_mode, r_dir_exists, r_pdf_files, r_source_lang>>
    /\ UNCHANGED <<p_vars, c_vars, t_vars, l_vars, s_vars>>

Next ==
    \/ BatchBegin
    \/ CheckInput
    \/ Extract
    \/ \E detection \in DetectResults : Detect(detection)
    \/ BeginTranslate
    \/ Pace
    \/ \E result \in CallResults : Call(result)
    \/ Backoff
    \/ Join
    \/ RunRestore
    \/ \E ok \in BOOLEAN : Render(ok)
    \/ BatchCollect

Spec == Init /\ [][Next]_vars

(***************************************************************************)
(* The task store of the web front ends: upload_file, the worker           *)
(* translate_pdf_background of every task and get_status, interleaved      *)
(***************************************************************************)
\* str.lower(), str.upper() and str.capitalize() on strings
UpperLetters == "ABCDEFGHIJKLMNOPQRSTUVWXYZ"
LowerLetters == "abcdefghijklmnopqrstuvwxyz"

\* str.lower() and str.upper() of one character
StrLowerChar(c) ==
    IF \E k \in 1..26 : SubSeq(UpperLetters, k, k) = c
    THEN LET k == CHOOSE k \in 1..26 : SubSeq(UpperLetters, k, k) = c
         IN  SubSeq(LowerLetters, k, k)
    ELSE c

StrUpperChar(c) ==
    IF \E k \in 1..26 : SubSeq(LowerLetters, k, k) = c
    THEN LET k == CHOOSE k \in 1..26 : SubSeq(LowerLetters, k, k) = c
         IN  SubSeq(UpperLetters, k, k)
    ELSE c

RECURSIVE StrLower(_)
StrLower(s) ==
    IF Len(s) = 0 THEN ""
    ELSE StrLowerChar(SubSeq(s, 1, 1)) \o StrLower(SubSeq(s, 2, Len(s)))

RECURSIVE StrUpper(_)
StrUpper(s) ==
    IF Len(s) = 0 THEN ""
    ELSE StrUpperChar(SubSeq(s, 1, 1)) \o StrUpper(SubSeq(s, 2, Len(s)))

StrCapitalize(s) ==
    IF Len(s) = 0 THEN "" ELSE StrUpperChar(SubSeq(s, 1, 1)) \o SubSeq(s, 2, Len(s))

\* the most files in one upload, which is the most tasks
MaxTasks == 2
Tasks == 1..MaxTasks

ALLOWED_EXTENSIONS == {"pdf"}

\* allowed_file(filename): a dot in the name and the lowered text after the last dot allowed
allowed_file(filename) ==
    LET dots == {i \in 1..Len(filename) : SubSeq(filename, i, i) = "."}
    IN  /\ dots # {}
        /\ LET last == CHOOSE i \in dots : \A j \in dots : j <= i
           IN  StrLower(SubSeq(filename, last + 1, Len(filename))) \in ALLOWED_EXTENSIONS

\* the file names of an upload: an allowed name, whose extension lower() changes, a name
\* with another extension and a name without a dot; a name can be uploaded twice
UploadedNames == {"a.PDF", "notes.txt", "pdf"}

RECURSIVE Uploads(_)
Uploads(n) ==
    IF n = 0 THEN {<< >>}
    ELSE Uploads(n - 1)
             \cup {Append(files, name) : files \in {u \in Uploads(n - 1) : Len(u) = n - 1},
                                         name \in UploadedNames}

\* the next task id: uuid4 gives an id that is not in the store
FreshTask(k) == t_pc[k] = "none" /\ \A j \in 1..(k - 1) : t_pc[j] # "none"

\* where translate_pdf_background starts: src/api/app_simple.py stores 'processing'
\* before it emits, src/webapp/app.py emits at once
WorkerEntry(app) == IF app = "api" THEN "set_processing" ELSE "emit_processing"

\* upload_file is past its two 400 answers: files[] is there and the first name is not ''
TasksInit ==
    /\ t_app \in {"webapp", "api"}
    /\ t_files \in Uploads(MaxTasks) \ {<< >>}
    /\ t_i = 0
    /\ t_task_ids = << >>
    /\ t_active = [k \in Tasks |-> "absent"]
    /\ t_pc = [k \in Tasks |-> "none"]
    /\ t_emitted = [k \in Tasks |-> << >>]
    /\ t_answer = "none"
    /\ ProtectIdle /\ ChunkIdle /\ RunIdle /\ CliIdle /\ SharedIdle

\* the loop of upload_file is at a file and not between the store and the start of a task
AtFile == t_i < Len(t_files) /\ \A j \in Tasks : t_pc[j] # "stored"

\* upload_file, a file that is not allowed: no task, the next file
UploadSkip ==
    /\ AtFile
    /\ ~allowed_file(t_files[t_i + 1])
    /\ t_i' = t_i + 1
    /\ UNCHANGED <<t_app, t_files, t_task_ids, t_active, t_pc, t_emitted, t_answer>>
    /\ UNCHANGED <<p_vars, c_vars, r_vars, l_vars, s_vars>>

\* a thread is prepared for a task without a record in active_translations
UploadNoStore(k) ==
    /\ AtFile
    /\ allowed_file(t_files[t_i + 1])
    /\ FreshTask(k)
    /\ t_pc' = [t_pc EXCEPT ![k] = "stored"]
    /\ UNCHANGED <<t_app, t_files, t_i, t_task_ids, t_active, t_emitted, t_answer>>
    /\ UNCHANGED <<p_vars, c_vars, r_vars, l_vars, s_vars>>

\* upload_file, an allowed file: active_translations[task_id] = {'status': 'queued', ...}
UploadStore(k) ==
    /\ AtFile
    /\ allowed_file(t_files[t_i + 1])
    /\ FreshTask(k)
    /\ t_active' = [t_active EXCEPT ![k] = "queued"]
    /\ t_pc' = [t_pc EXCEPT ![k] = "stored"]
    /\ UNCHANGED <<t_app, t_files, t_i, t_task_ids, t_emitted, t_answer>>
    /\ UNCHANGED <<p_vars, c_vars, r_vars, l_vars, s_vars>>

\* upload_file: thread.start(), task_ids.append(task_id), the next file
UploadStart(k) ==
    /\ t_pc[k] = "stored"
    /\ t_pc' = [t_pc EXCEPT ![k] = WorkerEntry(t_app)]
    /\ t_task_ids' = Append(t_task_ids, k)
    /\ t_i' = t_i + 1
    /\ UNCHANGED <<t_app, t_files, t_active, t_emitted, t_answer>>
    /\ UNCHANGED <<p_vars, c_vars, r_vars, l_vars, s_vars>>

\* src/api/app_simple.py: active_translations[task_id]['status'] = 'processing'
WorkerSetProcessing(k) ==
    /\ t_pc[k] = "set_processing"
    /\ t_active' = [t_active EXCEPT ![k] = "processing"]
    /\ t_pc' = [t_pc EXCEPT ![k] = "emit_processing"]
    /\ UNCHANGED <<t_app, t_files, t_i, t_task_ids, t_emitted, t_answer>>
    /\ UNCHANGED <<p_vars, c_vars, r_vars, l_vars, s_vars>>

\* a call of socketio.emit for a task: the status sent and whether the call returned
Emit(k, status, ok) == [t_emitted EXCEPT ![k] = Append(@, <<status, ok>>)]

\* socketio.emit of 'processing' inside the try: it returns, or it raises into the except
WorkerEmitProcessing(k, ok) ==
    /\ t_pc[k] = "emit_processing"
    /\ t_emitted' = Emit(k, "processing", ok)
    /\ t_pc' = [t_pc EXCEPT ![k] = IF ok THEN "translate" ELSE "except"]
    /\ UNCHANGED <<t_app, t_files, t_i, t_task_ids, t_active, t_answer>>
    /\ UNCHANGED <<p_vars, c_vars, r_vars, l_vars, s_vars>>

\* translator.translate_single_pdf(file_path, source_lang = source_lang) returns or raises
WorkerTranslate(k, ok) ==
    /\ t_pc[k] = "translate"
    /\ t_pc' = [t_pc EXCEPT ![k] = IF ok THEN "store_completed" ELSE "except"]
    /\ UNCHANGED <<t_app, t_files, t_i, t_task_ids, t_active, t_emitted, t_answer>>
    /\ UNCHANGED <<p_vars, c_vars, r_vars, l_vars, s_vars>>

\* active_translations[task_id] = {'status': 'completed', ...}
WorkerStoreCompleted(k) ==
    /\ t_pc[k] = "store_completed"
    /\ t_active' = [t_active EXCEPT ![k] = "completed"]
    /\ t_pc' = [t_pc EXCEPT ![k] = "emit_completed"]
    /\ UNCHANGED <<t_app, t_files, t_i, t_task_ids, t_emitted, t_answer>>
    /\ UNCHANGED <<p_vars, c_vars, r_vars, l_vars, s_vars>>

\* socketio.emit of 'completed' inside the try: it returns, or it raises into the except
WorkerEmitCompleted(k, ok) ==
    /\ t_pc[k] = "emit_completed"
    /\ t_emitted' = Emit(k, "completed", ok)
    /\ t_pc' = [t_pc EXCEPT ![k] = IF ok THEN "end" ELSE "except"]
    /\ UNCHANGED <<t_app, t_files, t_i, t_task_ids, t_active, t_answer>>
    /\ UNCHANGED <<p_vars, c_vars, r_vars, l_vars, s_vars>>

\* except Exception: active_translations[task_id] = {'status': 'failed', ...}
WorkerExcept(k) ==
    /\ t_pc[k] = "except"
    /\ t_active' = [t_active EXCEPT ![k] = "failed"]
    /\ t_pc' = [t_pc EXCEPT ![k] = "emit_failed"]
    /\ UNCHANGED <<t_app, t_files, t_i, t_task_ids, t_emitted, t_answer>>
    /\ UNCHANGED <<p_vars, c_vars, r_vars, l_vars, s_vars>>

\* socketio.emit of 'failed' in the except: it returns, or it raises and ends the thread
WorkerEmitFailed(k, ok) ==
    /\ t_pc[k] = "emit_failed"
    /\ t_emitted' = Emit(k, "failed", ok)
    /\ t_pc' = [t_pc EXCEPT ![k] = "end"]
    /\ UNCHANGED <<t_app, t_files, t_i, t_task_ids, t_active, t_answer>>
    /\ UNCHANGED <<p_vars, c_vars, r_vars, l_vars, s_vars>>

\* get_status(task_id): the stored status, or 'Task not found'
GetStatus(k) ==
    /\ t_answer' = IF t_active[k] = "absent" THEN "Task not found" ELSE t_active[k]
    /\ UNCHANGED <<t_app, t_files, t_i, t_task_ids, t_active, t_pc, t_emitted>>
    /\ UNCHANGED <<p_vars, c_vars, r_vars, l_vars, s_vars>>

TasksNext ==
    \/ UploadSkip
    \/ \E k \in Tasks :
        \/ UploadStore(k)
        \/ UploadStart(k)
        \/ WorkerSetProcessing(k)
        \/ \E ok \in BOOLEAN : WorkerEmitProcessing(k, ok)
        \/ \E ok \in BOOLEAN : WorkerTranslate(k, ok)
        \/ WorkerStoreCompleted(k)
        \/ \E ok \in BOOLEAN : WorkerEmitCompleted(k, ok)
        \/ WorkerExcept(k)
        \/ \E ok \in BOOLEAN : WorkerEmitFailed(k, ok)
        \/ GetStatus(k)

SpecTasks == TasksInit /\ [][TasksNext]_vars

(***************************************************************************)
(* The command line front end (src/cli.py): validation of the -l argument  *)
(* before the translator is called.  Language names and codes are strings. *)
(***************************************************************************)
\* the supported-language table: name |-> ISO code
SUPPORTED_LANGUAGES ==
    [ finnish |-> "fi", french |-> "fr", spanish |-> "es", german |-> "de",
      italian |-> "it", portuguese |-> "pt", russian |-> "ru", chinese |-> "zh",
      japanese |-> "ja", korean |-> "ko", dutch |-> "nl", swedish |-> "sv",
      norwegian |-> "no", danish |-> "da", polish |-> "pl" ]

get_supported_languages == SUPPORTED_LANGUAGES

LanguageNames == DOMAIN SUPPORTED_LANGUAGES
LanguageCodes == { SUPPORTED_LANGUAGES[n] : n \in LanguageNames }

\* the "Validate language" block of main(), the same in both branches
ValidateLanguage(language) ==
    LET source_lang == language
        languages == get_supported_languages
    IN  IF source_lang # "auto"
        THEN IF source_lang \notin LanguageCodes /\ source_lang \notin DOMAIN languages
             THEN LET key == StrLower(source_lang)
                      \* languages.get(key): the code, or "" for None
                      lang_code == IF key \in DOMAIN languages THEN languages[key] ELSE ""
                  IN  IF lang_code # "" THEN lang_code ELSE "auto"
             ELSE source_lang
        ELSE source_lang

\* values of -l: the default, names and codes in three letter cases, unknown values
UnknownLanguages == {"klingon", "english", "en", "xx", "Auto", "es-ES", " spanish"}
LanguageArgs ==
    {"auto"} \cup UnknownLanguages
    \cup UNION { {n, StrCapitalize(n), StrUpper(n)} : n \in LanguageNames }
    \cup UNION { {c, StrCapitalize(c), StrUpper(c)} : c \in LanguageCodes }

CliInit ==
    /\ l_language \in LanguageArgs
    /\ l_mode \in {"file", "batch"}
    /\ l_pc = "parsed"
    /\ l_source_lang = "none"
    /\ ProtectIdle /\ ChunkIdle /\ RunIdle /\ TasksIdle /\ SharedIdle

\* if args.file: ... translator.translate_single_pdf(args.file, args.name, source_lang)
MainFile ==
    /\ l_pc = "parsed" /\ l_mode = "file"
    /\ l_source_lang' = ValidateLanguage(l_language)
    /\ l_pc' = "translate_single_pdf"
    /\ UNCHANGED <<l_language, l_mode>>
    /\ UNCHANGED <<p_vars, c_vars, r_vars, t_vars, s_vars>>

\* elif args.batch and args.directory: ... translator.batch_translate_pdfs(..., source_lang)
MainBatch ==
    /\ l_pc = "parsed" /\ l_mode = "batch"
    /\ l_source_lang' = ValidateLanguage(l_language)
    /\ l_pc' = "batch_translate_pdfs"
    /\ UNCHANGED <<l_language, l_mode>>
    /\ UNCHANGED <<p_vars, c_vars, r_vars, t_vars, s_vars>>

CliNext == MainFile \/ MainBatch

SpecCli == CliInit /\ [][CliNext]_vars

\* the translator has been called by main()
CliCalled == l_pc \in {"translate_single_pdf", "batch_translate_pdfs"}

(***************************************************************************)
(* Concurrent runs of translate_single_pdf on the one PDFTranslator of a   *)
(* web front end: every upload starts a thread that calls the shared       *)
(* instance.  The attributes of the instance are written by __init__ only. *)
(***************************************************************************)
\* the worker threads running at the same time
MaxRuns == 2
Runs == 1..MaxRuns

\* secure_filename(file.filename) for the names of the model: a separator becomes '_'
RECURSIVE secure_filename(_)
secure_filename(filename) ==
    IF Len(filename) = 0 THEN ""
    ELSE (IF SubSeq(filename, 1, 1) = "/" THEN "_" ELSE SubSeq(filename, 1, 1))
             \o secure_filename(SubSeq(filename, 2, Len(filename)))

\* the path the upload of a run was saved at: UPLOAD_FOLDER / f"{task_id}_{filename}",
\* the number of the run as its task id
UploadPath(run, f) == "uploads/" \o SubSeq("123456789", run, run) \o "_" \o secure_filename(f)

\* an instance that keeps the working data of a run in one place for all its callers
SharedFrame(run) == 1

\* the frame that holds the local variables of a call: text, source_lang, protected_text,
\* entities, chunks, translated_chunks, i and final_translation are locals of
\* translate_single_pdf and translate_text_chunks, so every call has its own
Frame(run) == run

FreshLocals ==
    [text |-> << >>, source_lang |-> "none", protected_text |-> << >>, entities |-> << >>,
     chunks |-> << >>, translated_chunks |-> << >>, i |-> 0, final_translation |-> << >>]

NoReturn == [outcome |-> "none", text |-> << >>, path |-> ""]

\* what the loop over chunks appends for a chunk whose backend calls ended with result: a
\* text ("ok") or an exception ("raise")
ChunkResult(impl, chunk, result) ==
    IF result = "ok" THEN BackendText(chunk) ELSE FallbackText(chunk)

SharedInit ==
    /\ s_impl \in {"core", "webapp"}
    /\ s_source_lang \in {"auto", "es"}
    /\ s_files \in {fs \in [Runs -> ExistingFiles] : \A a, b \in Runs : a # b => fs[a] # fs[b]}
    /\ s_pc = [run \in Runs |-> "extract"]
    /\ s_frames = [frame \in Runs |-> FreshLocals]
    /\ s_calls = [run \in Runs |-> << >>]
    /\ s_return = [run \in Runs |-> NoReturn]
    /\ ProtectIdle /\ ChunkIdle /\ RunIdle /\ TasksIdle /\ CliIdle

\* translate_single_pdf of a run up to the choice of the source language
SharedExtract(run) ==
    /\ s_pc[run] = "extract"
    /\ IF s_files[run] \notin ReadableFiles
       THEN /\ s_return' = [s_return EXCEPT ![run].outcome = "ExtractError"]
            /\ s_pc' = [s_pc EXCEPT ![run] = "done"]
            /\ s_frames' = s_frames
       ELSE LET text == extract_text_from_pdf(s_files[run])
            IN  IF NoTextFound(text)
                THEN /\ s_return' = [s_return EXCEPT ![run].outcome = "ValueError"]
                     /\ s_pc' = [s_pc EXCEPT ![run] = "done"]
                     /\ s_frames' = [s_frames EXCEPT ![Frame(run)].text = text]
                ELSE /\ s_return' = s_return
                     /\ s_pc' = [s_pc EXCEPT ![run] =
                                    IF NeedsDetection(s_source_lang) THEN "detect"
                                    ELSE "translate"]
                     /\ s_frames' = [s_frames EXCEPT ![Frame(run)].text = text,
                                                     ![Frame(run)].source_lang = s_source_lang]
    /\ UNCHANGED <<s_impl, s_source_lang, s_files, s_calls>>
    /\ UNCHANGED <<p_vars, c_vars, r_vars, t_vars, l_vars>>

\* source_lang = self.detect_language(text)['language']
SharedDetect(run, detection) ==
    /\ s_pc[run] = "detect"
    /\ s_frames' = [s_frames EXCEPT ![Frame(run)].source_lang = detect_language(detection)]
    /\ s_pc' = [s_pc EXCEPT ![run] = "translate"]
    /\ UNCHANGED <<s_impl, s_source_lang, s_files, s_calls, s_return>>
    /\ UNCHANGED <<p_vars, c_vars, r_vars, t_vars, l_vars>>

\* translate_text_chunks up to its loop
SharedBegin(run) ==
    /\ s_pc[run] = "translate"
    /\ LET text == s_frames[Frame(run)].text
       IN  IF s_impl = "core"
           THEN LET r == preserve_names_and_entities(text)
                IN  s_frames' = [s_frames EXCEPT
                                    ![Frame(run)].protected_text = r.text,
                                    ![Frame(run)].entities = r.map,
                                    ![Frame(run)].chunks = core_chunks(r.text, chunk_size),
                                    ![Frame(run)].translated_chunks = << >>,
                                    ![Frame(run)].i = 0]
           ELSE s_frames' = [s_frames EXCEPT
                                ![Frame(run)].chunks = web_chunks(text, chunk_size),
                                ![Frame(run)].translated_chunks = << >>,
                                ![Frame(run)].i = 0]
    /\ s_pc' = [s_pc EXCEPT ![run] = "loop"]
    /\ UNCHANGED <<s_impl, s_source_lang, s_files, s_calls, s_return>>
    /\ UNCHANGED <<p_vars, c_vars, r_vars, t_vars, l_vars>>

\* one iteration of the loop over chunks: the backend calls of the chunk and the append
SharedCall(run, result) ==
    /\ s_pc[run] = "loop"
    /\ LET locals == s_frames[Frame(run)]
       IN  /\ locals.i < Len(locals.chunks)
           /\ s_frames' = [s_frames EXCEPT
                  ![Frame(run)].translated_chunks =
                       Append(locals.translated_chunks,
                              ChunkResult(s_impl, locals.chunks[locals.i + 1], result)),
                  ![Frame(run)].i = locals.i + 1]
    /\ s_calls' = [s_calls EXCEPT ![run] = Append(@, result)]
    /\ UNCHANGED <<s_impl, s_source_lang, s_files, s_pc, s_return>>
    /\ UNCHANGED <<p_vars, c_vars, r_vars, t_vars, l_vars>>

\* the end of the loop: ' '.join(translated_chunks), in src/pdf_translator.py followed by
\* restore_names_and_entities, and the return to translate_single_pdf
SharedJoin(run) ==
    /\ s_pc[run] = "loop"
    /\ LET locals == s_frames[Frame(run)]
           combined_translation == JoinSpace(locals.translated_chunks)
       IN  /\ locals.i >= Len(locals.chunks)
           /\ s_frames' = [s_frames EXCEPT ![Frame(run)].final_translation =
                  IF s_impl = "core"
                  THEN restore_names_and_entities(combined_translation, locals.entities)
                  ELSE combined_translation]
    /\ s_pc' = [s_pc EXCEPT ![run] = "render"]
    /\ UNCHANGED <<s_impl, s_source_lang, s_files, s_calls, s_return>>
    /\ UNCHANGED <<p_vars, c_vars, r_vars, t_vars, l_vars>>

\* the output path, create_pdf_from_text, and the return or the exception of the run
SharedRender(run, ok) ==
    /\ s_pc[run] = "render"
    /\ s_return' = [s_return EXCEPT ![run] =
           [outcome |-> IF ok THEN "ok" ELSE "RenderError",
            text |-> s_frames[Frame(run)].final_translation,
            path |-> OutputPath(UploadPath(run, s_files[run]))]]
    /\ s_pc' = [s_pc EXCEPT ![run] = "done"]
    /\ UNCHANGED <<s_impl, s_source_lang, s_files, s_frames, s_calls>>
    /\ UNCHANGED <<p_vars, c_vars, r_vars, t_vars, l_vars>>

SharedNext ==
    \E run \in Runs :
        \/ SharedExtract(run)
        \/ \E detection \in DetectResults : SharedDetect(run, detection)
        \/ SharedBegin(run)
        \/ \E result \in {"ok", "raise"} : SharedCall(run, result)
        \/ SharedJoin(run)
        \/ \E ok \in BOOLEAN : SharedRender(run, ok)

SpecShared == SharedInit /\ [][SharedNext]_vars

(***************************************************************************)
(* The claims about the protectors (checked under SpecProtect)             *)
(***************************************************************************)
\* every match of every pattern of a module in a text, before any overlap check
RawMatches(impl, t) ==
    IF impl = "core" THEN NameAllMatches(t, 1)
    ELSE PreserveFindIter(1, t, 0) \o PreserveFindIter(2, t, 0) \o PreserveFindIter(3, t, 0)

\* no two detected spans of a text overlap
NoOverlap(impl, t) ==
    LET ms == RawMatches(impl, t)
    IN  \A a, b \in 1..Len(ms) : a # b => ~Overlaps(ms[a], ms[b])

\* a text holds no digit
NoDigit(t) == \A k \in 1..Len(t) : t[k] \notin Digit

\* C1: placeholder round trip.  For a text with no overlap between detected spans,
\* protecting it and restoring the unchanged protected text with the map of protect
\* gives the original text, in either module, also when a digit or a digit and a space
\* precede a protected name.
C1_RoundTrip ==
    (p_pc = "restored" /\ p_how = "identity" /\ NoOverlap(p_impl, p_text))
        => p_restored = p_text

\* C7: degraded recovery.  When the separators of every placeholder were stripped and
\* its counter and text stayed adjacent (with or without a space between them), restore
\* puts back exactly the original text, with no counter digit left over, for any number
\* of placeholders; the text has no digit of its own, so every digit left is a counter's.
C7_DegradedRecovery ==
    (p_pc = "restored" /\ p_how = "stripped" /\ NoDigit(p_text)) => p_restored = p_text

\* C8: descending-offset replacement.  For the text with "John Smith" at offset 5 and
\* the titled name "Dr. Jane Doe" at offset 40, protecting and restoring the unchanged
\* protected text gives the original text.
C8_TwoNamesRoundTrip ==
    (p_pc = "restored" /\ p_how = "identity" /\ p_text = TwoNamesText)
        => p_restored = p_text

(***************************************************************************)
(* The claims about the chunkers (checked under SpecChunk)                 *)
(***************************************************************************)
\* t.split(): the runs of characters that are no white space, from offset i on
RECURSIVE SplitWhite(_, _)
SplitWhite(t, i) ==
    LET starts == {k \in i..(Len(t) - 1) : At(t, k) \notin SpaceChar}
    IN  IF starts = {} THEN << >>
        ELSE LET s == SetMin(starts)
                 e == SetMin({k \in s..Len(t) : k = Len(t) \/ At(t, k) \in SpaceChar})
             IN  <<PySlice(t, s, e)>> \o SplitWhite(t, e)

\* ' '.join(t.split()): the text with its white space normalized
Normalize(t) == JoinSpace(SplitWhite(t, 0))

\* C5: chunk size bound.  Every chunk of the sentence chunker is at most maxSize long,
\* but for a chunk that is one single sentence longer than maxSize.
C5_ChunkSizeBound ==
    (c_pc = "chunked" /\ c_impl = "core") =>
        LET sentences == SplitSentences(c_text, 0)
        IN  \A k \in 1..Len(c_chunks) :
                \/ Len(c_chunks[k]) <= c_size
                \/ \E j \in 1..Len(sentences) :
                       Len(sentences[j]) > c_size /\ c_chunks[k] = Strip(sentences[j])

\* C6: chunk reconstruction.  The chunks, joined in order with single spaces and with
\* white space normalized, are the text with its white space normalized, for the chunking
\* of either module.
C6_ChunkReconstruction ==
    c_pc = "chunked" => Normalize(JoinSpace(c_chunks)) = Normalize(c_text)

(***************************************************************************)
(* The claims about the pipeline (checked under Spec)                      *)
(***************************************************************************)
\* the backend calls of the current run for chunk k, in order
CallsOf(k) == SelectSeq(r_steps, LAMBDA s : s.op = "translate" /\ s.chunk = k)

\* chunk k had two calls and neither returned a text
Exhausted(k) ==
    /\ Len(CallsOf(k)) = 2
    /\ \A a \in 1..2 : CallsOf(k)[a].result \in {"raise", "empty"}

\* the current run has joined its translated chunks
Joined == \E a \in 1..Len(r_steps) : r_steps[a].op = "join"

\* the offset of entry k (from 0) of a list in its ' '.join
JoinOffset(parts, k) == IF k = 0 THEN 0 ELSE Len(JoinSpace(SubSeq(parts, 1, k))) + 1

\* C2: fallback on exhausted retries.  In src/pdf_translator.py a chunk whose two
\* attempts both raised or returned an empty text has its own text as its entry of
\* translated_chunks; the run does not fail in the loop, every chunk is submitted, and
\* the assembled translation is the entries joined by single spaces, so it holds the
\* chunk's text verbatim at the chunk's place.
C2_FallbackOnExhaustedRetries ==
    r_impl = "core" =>
        /\ \A k \in 0..(Len(r_translated_chunks) - 1) :
               Exhausted(k) => r_translated_chunks[k + 1] = r_chunks[k + 1]
        /\ (\E k \in 0..(Len(r_chunks) - 1) : Exhausted(k)) =>
               r_outcome \in {"none", "ok", "RenderError"}
        /\ Joined =>
               /\ Len(r_translated_chunks) = Len(r_chunks)
               /\ \A k \in 0..(Len(r_chunks) - 1) :
                      /\ CallsOf(k) # << >>
                      /\ Exhausted(k) =>
                             PySlice(r_combined_translation,
                                     JoinOffset(r_translated_chunks, k),
                                     JoinOffset(r_translated_chunks, k) + Len(r_chunks[k + 1]))
                                 = r_chunks[k + 1]

\* a run of src/pdf_translator.py that ended well, whose first chunk was never
\* translated and whose second chunk was
C2_Witness ==
    /\ r_impl = "core" /\ r_pc = "done"
    /\ Len(r_chunks) = 2
    /\ Exhausted(0)
    /\ r_translated_chunks[1] = r_chunks[1]
    /\ r_translated_chunks[2] = BackendText(r_chunks[2])
    /\ r_translated_chunks[2] # r_chunks[2]

\* the places of a list of results that hold "ok", and those that do not
OkPlaces(results) == SelectSeq([k \in 1..Len(results) |-> k], LAMBDA k : results[k] = "ok")
FailedPlaces(results) == SelectSeq([k \in 1..Len(results) |-> k], LAMBDA k : results[k] # "ok")

\* C3: batch partial failure.  batch_translate_pdfs runs translate_single_pdf on every
\* matched file in turn; a failure is recorded in failed_files and the files after it are
\* still processed, so at the end successes + failures = matched files, the outputs of
\* the runs that succeeded are the returned list and the files of the runs that failed
\* are the failure list.
C3_BatchPartialFailure ==
    (r_mode = "batch" /\ r_pc \notin {"batch_begin", "batch_failed"}) =>
        /\ Len(r_translated_files) + Len(r_failed_files) = Len(r_results)
        /\ r_translated_files =
               [j \in 1..Len(OkPlaces(r_results)) |->
                    OutputPath(r_pdf_files[OkPlaces(r_results)[j]])]
        /\ r_failed_files =
               [j \in 1..Len(FailedPlaces(r_results)) |->
                    r_pdf_files[FailedPlaces(r_results)[j]]]
        /\ r_pc = "batch_done" => Len(r_results) = Len(r_pdf_files)
        /\ r_pc # "batch_done" => Len(r_results) = r_idx - 1

\* a batch of three files with the second unreadable has ended with two outputs and
\* one recorded failure
C3_Witness ==
    /\ r_mode = "batch" /\ r_pc = "batch_done"
    /\ Len(r_pdf_files) = 3 /\ r_pdf_files[2] = "broken.pdf"
    /\ r_results[1] = "ok" /\ r_results[2] = "ExtractError" /\ r_results[3] = "ok"
    /\ r_translated_files = <<OutputPath(r_pdf_files[1]), OutputPath(r_pdf_files[3])>>
    /\ r_failed_files = <<"broken.pdf">>

\* the current run has extracted a text
Extracted == r_steps # << >> /\ r_steps[1] = Step("extract", 0, 0, "ok")

\* C4: empty document rejection.  When the extracted text is empty or white space only,
\* translate_single_pdf fails with ValueError and the run has made no detect call, no
\* backend translate call and no render call.
C4_EmptyDocumentRejected ==
    (Extracted /\ Strip(r_text) = << >>) =>
        /\ r_pc = "failed" /\ r_outcome = "ValueError"
        /\ \A a \in 1..Len(r_steps) : r_steps[a].op \notin {"detect", "translate", "render"}

\* the run on the file of white space has failed with ValueError, detection requested
C4_Witness ==
    /\ Extracted /\ pdf_file = "blank.pdf" /\ r_text = << >> /\ r_source_lang = "auto"
    /\ r_pc = "failed" /\ r_outcome = "ValueError"

\* the operations of the current run in order, the sleeps left out
Ops ==
    LET work == SelectSeq(r_steps, LAMBDA s : s.op \notin {"sleep_pace", "sleep_backoff"})
    IN  [a \in 1..Len(work) |-> work[a].op]

\* the current run has reached rendering
ReachedRender == r_steps # << >> /\ r_steps[Len(r_steps)].op = "render"

\* the order extract, detect (when requested), protect, chunk, one or more backend
\* calls, reassemble, restore, render; protect and restore are in it when protected holds
InOrder(ops, protected) ==
    \E n \in 1..Len(ops) :
        ops = <<"extract">>
                  \o (IF r_source_lang = "auto" THEN <<"detect">> ELSE << >>)
                  \o (IF protected THEN <<"protect">> ELSE << >>)
                  \o <<"chunk">>
                  \o [a \in 1..n |-> "translate"]
                  \o <<"join">>
                  \o (IF protected THEN <<"restore">> ELSE << >>)
                  \o <<"render">>

\* every chunk of the current run was submitted to the backend
EachChunkSubmitted ==
    {r_steps[a].chunk : a \in {b \in 1..Len(r_steps) : r_steps[b].op = "translate"}}
        = 0..(Len(r_chunks) - 1)

\* the steps took the output of protect through the chunking, and the text rendered is
\* the output of restore on the reassembled translation
ProtectedAndRestored ==
    /\ r_protected_text = preserve_names_and_entities(r_text).text
    /\ r_chunks = core_chunks(r_protected_text, chunk_size)
    /\ r_combined_translation = JoinSpace(r_translated_chunks)
    /\ r_rendered = restore_names_and_entities(r_combined_translation, r_entities)

StatusMoves ==
    { <<"absent", "queued">>, <<"queued", "processing">>,
      <<"processing", "completed">>, <<"processing", "failed">> }

\* C10: task state machine.  The stored status of a task only moves queued ->
\* processing -> completed or queued -> processing -> failed: it is queued when
\* uploaded, processing while its pipeline run executes, and completed or failed only
\* from processing, in both front ends, however workers and status requests interleave.
C10_TaskStateMachine ==
    [][\A k \in Tasks :
           /\ t_active'[k] # t_active[k] => <<t_active[k], t_active'[k]>> \in StatusMoves
           /\ t_pc'[k] = "translate" => t_active'[k] = "processing"]_vars

(***************************************************************************)
(* The claims about the command line front end (checked under SpecCli)     *)
(***************************************************************************)
\* C11: the source language main() passes to translate_single_pdf or batch_translate_pdfs
\* is "auto" or a code of the supported-language table; a supported language name given
\* with -l, in any letter case, is passed as its code; an unknown value is passed as
\* "auto"
C11_SourceLanguageNormalised ==
    CliCalled =>
        /\ l_source_lang \in {"auto"} \cup LanguageCodes
        /\ \A n \in LanguageNames :
              l_language \in {n, StrCapitalize(n), StrUpper(n)}
                  => l_source_lang = SUPPORTED_LANGUAGES[n]
        /\ l_language \in UnknownLanguages => l_source_lang = "auto"

(***************************************************************************)
(* The claims about the source language of a run (checked under Spec)      *)
(***************************************************************************)
\* the places of the log where the detector was called, and where the backend was called
DetectPlaces == {k \in 1..Len(r_steps) : r_steps[k].op = "detect"}
TranslatePlaces == {k \in 1..Len(r_steps) : r_steps[k].op = "translate"}

\* C12: the detector is called only when the caller's source language is "auto", once and
\* before the first backend translate call, and then every backend translate call of the
\* run uses the detected code; otherwise the detector is never called and every backend
\* translate call uses the caller's value unchanged; the target is always "en"
C12_SourceLanguageSelection ==
    /\ r_source_lang # "auto" => DetectPlaces = {}
    /\ Cardinality(DetectPlaces) <= 1
    /\ \A k \in TranslatePlaces :
          /\ r_steps[k].dest = "en"
          /\ IF r_source_lang = "auto"
             THEN \E d \in DetectPlaces : d < k /\ r_steps[k].src = r_steps[d].src
             ELSE r_steps[k].src = r_source_lang

\* a run on detection, the detector naming "de", that called the backend for its second
\* chunk
C12_Witness ==
    /\ r_source_lang = "auto"
    /\ \E d \in DetectPlaces : r_steps[d].src = "de"
    /\ \E k \in TranslatePlaces : r_steps[k].chunk = 1

\* the detector of the run failed
DetectionFailed == \E d \in DetectPlaces : r_steps[d].result = "raise"

\* C13: when language detection fails the detector returns the code "unknown" and does not
\* raise; the run goes on to translation, where every backend translate call has the source
\* language "unknown", and to rendering, and it does not fail because of detection: it ends
\* only after rendering, in success or with the failure of rendering
C13_DetectionFailureTolerated ==
    DetectionFailed =>
        /\ r_lang = "unknown"
        /\ \A d \in DetectPlaces : r_steps[d].src = "unknown"
        /\ \A k \in TranslatePlaces : r_steps[k].src = "unknown"
        /\ r_pc \in {"translate", "call", "pace", "backoff", "join", "restore", "render",
                     "done", "failed"}
        /\ r_pc \in {"done", "failed"} =>
              /\ r_steps[Len(r_steps)].op = "render"
              /\ r_outcome \in {"ok", "RenderError"}
              /\ r_rendered = r_final_translation

\* a run whose detection failed, that called the backend and ended in success
C13_Witness ==
    /\ DetectionFailed
    /\ TranslatePlaces # {}
    /\ r_pc = "done" /\ r_outcome = "ok"

(***************************************************************************)
(* The claims about concurrent runs on a shared instance (checked under    *)
(* SpecShared)                                                             *)
(***************************************************************************)
\* what translate_single_pdf gives for a file on its own, the backend answering the
\* chunks with the results calls: the protected text, the map, the chunk list, the result
\* list and the final text
Alone(impl, f, calls) ==
    LET text == extract_text_from_pdf(f)
        r == IF impl = "core" THEN preserve_names_and_entities(text)
             ELSE [text |-> << >>, map |-> << >>]
        chunks == IF impl = "core" THEN core_chunks(r.text, chunk_size)
                  ELSE web_chunks(text, chunk_size)
        n == Min(Len(calls), Len(chunks))
        results == [k \in 1..n |-> ChunkResult(impl, chunks[k], calls[k])]
        combined == JoinSpace(results)
    IN  [text |-> text, protected_text |-> r.text, entities |-> r.map, chunks |-> chunks,
         translated_chunks |-> results,
         final_translation |-> IF impl = "core"
                               THEN restore_names_and_entities(combined, r.map)
                               ELSE combined]

\* C14: when two runs of translate_single_pdf on different documents execute concurrently
\* on one PDFTranslator, under every interleaving each run's working text, preservation
\* map, chunk list and result list are those of its own document and its own backend
\* results, and its final text and output path equal what the run produces alone
C14_RunsIsolated ==
    \A run \in Runs :
        LET alone == Alone(s_impl, s_files[run], s_calls[run])
            locals == s_frames[run]
        IN  /\ s_pc[run] \in {"detect", "translate", "loop", "render"}
                  => locals.text = alone.text
            /\ s_pc[run] \in {"loop", "render"}
                  => /\ locals.protected_text = alone.protected_text
                     /\ locals.entities = alone.entities
                     /\ locals.chunks = alone.chunks
                     /\ locals.translated_chunks = alone.translated_chunks
                     /\ locals.i = Len(s_calls[run])
            /\ s_pc[run] = "render" => locals.final_translation = alone.final_translation
            /\ s_pc[run] = "done" =>
                  IF s_files[run] \notin ReadableFiles
                  THEN s_return[run] = [NoReturn EXCEPT !.outcome = "ExtractError"]
                  ELSE IF NoTextFound(alone.text)
                  THEN s_return[run] = [NoReturn EXCEPT !.outcome = "ValueError"]
                  ELSE /\ s_return[run].outcome \in {"ok", "RenderError"}
                       /\ s_return[run].text = alone.final_translation
                       /\ s_return[run].path = OutputPath(UploadPath(run, s_files[run]))
                       /\ Len(s_calls[run]) = Len(alone.chunks)

\* both runs have returned a path, their texts and paths differ, and one of them had two
\* chunks or more
C14_Witness ==
    /\ \A run \in Runs : s_pc[run] = "done" /\ s_return[run].outcome = "ok"
    /\ s_return[1].text # s_return[2].text
    /\ s_return[1].path # s_return[2].path
    /\ \E run \in Runs : Len(s_calls[run]) >= 2

(***************************************************************************)
(* The claims about the errors of a run and about the backend calls of a   *)
(* chunk (checked under Spec)                                              *)
(***************************************************************************)
\* the current run has ended: translate_single_pdf has returned or raised
RunEnded == r_pc \in {"done", "failed"}

\* rendering was called and raised
RenderFailed == ReachedRender /\ r_steps[Len(r_steps)].result = "raise"

\* a backend translate call of the current run raised or returned an empty text
SomeCallFailed == \E k \in TranslatePlaces : r_steps[k].result \in {"raise", "empty"}

\* a protected name of the current run is not in its final text
SomeNameLost ==
    \E e \in 1..Len(r_entities) : ~Contains(r_final_translation, r_entities[e][2])

\* C15: fatal versus absorbed errors.  A run of translate_single_pdf of
\* src/pdf_translator.py ends in failure exactly when the input path is missing,
\* extraction fails, the extracted text is empty or white space only, or rendering fails;
\* a run with failed backend calls or with placeholders that were not restored still
\* renders, and unless rendering fails it returns its output path.
C15_FatalVersusAbsorbed ==
    (r_impl = "core" /\ RunEnded) =>
        /\ r_pc = "failed" <=>
              \/ pdf_file \notin ExistingFiles
              \/ pdf_file \in ExistingFiles \ ReadableFiles
              \/ Extracted /\ Strip(r_text) = << >>
              \/ RenderFailed
        /\ r_pc = "done" =>
              /\ r_outcome = "ok"
              /\ r_output_path = OutputPath(pdf_file)
        /\ (SomeCallFailed \/ SomeNameLost) =>
              /\ ReachedRender
              /\ r_rendered = r_final_translation
              /\ r_pc = "done" \/ RenderFailed

\* a run of src/pdf_translator.py that returned its output path although every backend
\* call of its second chunk failed and a protected name was not restored
C15_Witness ==
    /\ r_impl = "core" /\ r_pc = "done" /\ r_outcome = "ok"
    /\ Exhausted(1)
    /\ SomeNameLost
    /\ r_output_path = OutputPath(pdf_file)

\* the text a backend translate call returned for a chunk; a call that raised returned none
Reply(chunk, result) ==
    IF result = "ok" THEN BackendText(chunk)
    ELSE IF result = "mangled" THEN BackendMangled(chunk)
    ELSE << >>

\* C16: retry budget.  Every chunk whose result is fixed had at least one and at most two
\* backend translate calls; it had a second call only if the first raised or returned an
\* empty text; it had no call after a call that returned a non-empty text; and its result
\* is the text a call returned if and only if one of its calls returned a non-empty text.
C16_RetryBudget ==
    \A k \in 0..(Len(r_translated_chunks) - 1) :
        LET calls == CallsOf(k)
            chunk == r_chunks[k + 1]
        IN  /\ Len(calls) \in {1, 2}
            /\ Len(calls) = 2 => calls[1].result \in {"raise", "empty"}
            /\ \A a \in 1..(Len(calls) - 1) : calls[a].result \notin {"ok", "mangled"}
            /\ (\E a \in 1..Len(calls) :
                    /\ calls[a].result # "raise"
                    /\ r_translated_chunks[k + 1] = Reply(chunk, calls[a].result))
                 <=> (\E a \in 1..Len(calls) : calls[a].result \in {"ok", "mangled"})

\* a step with operation op lies strictly between places a and b of the log
Between(op, a, b) == \E c \in (a + 1)..(b - 1) : r_steps[c].op = op

\* C17: backoff between attempts.  Whenever the first attempt of a chunk raised or
\* returned an empty text, a backoff delay lies between that attempt and the backend call
\* of the second attempt.
C17_BackoffBetweenAttempts ==
    \A a, b \in TranslatePlaces :
        (/\ a < b
         /\ r_steps[a].chunk = r_steps[b].chunk
         /\ r_steps[a].attempt = 0 /\ r_steps[b].attempt = 1
         /\ r_steps[a].result \in {"raise", "empty"})
            => Between("sleep_backoff", a, b)

\* C18: pacing.  In one run of translate_text_chunks a pacing delay lies before every
\* backend translate call but the first, after the call before it; none lies before the
\* first call.
C18_PacingBeforeEveryCall ==
    \A b \in TranslatePlaces :
        IF \A a \in TranslatePlaces : b <= a
        THEN ~Between("sleep_pace", 0, b)
        ELSE \E a \in TranslatePlaces :
                /\ a < b
                /\ ~Between("translate", a, b)
                /\ Between("sleep_pace", a, b)

\* the result of chunk k (from 0) of the current run, from the backend calls in the log:
\* the text of its last call, or the chunk when that call raised or, in
\* src/pdf_translator.py, returned an empty text
ResultOf(k) ==
    LET calls == CallsOf(k)
        last == calls[Len(calls)].result
    IN  IF last = "raise" \/ (r_impl = "core" /\ last = "empty") THEN r_chunks[k + 1]
        ELSE Reply(r_chunks[k + 1], last)

\* the offset of entry k (from 1) of a list in the text assembled from it, each entry
\* followed by one separator
RECURSIVE EntryOffset(_, _)
EntryOffset(parts, k) ==
    IF k = 1 THEN 0 ELSE EntryOffset(parts, k - 1) + Len(parts[k - 1]) + 1

\* C19: in-order sequential submission.  The backend calls of a run go through the chunks
\* in index order from the first, and a call for a chunk is made only when every chunk
\* before it has its result; after the loop the result list has one entry per chunk,
\* entry i the translation or the fallback of chunk i, and the assembled text is the
\* entries in that order with a single space between neighbours.
C19_InOrderSubmission ==
    /\ \A a, b \in TranslatePlaces : a < b => r_steps[a].chunk <= r_steps[b].chunk
    /\ \A b \in TranslatePlaces :
          /\ r_steps[b].chunk <= Len(r_translated_chunks)
          /\ r_steps[b].chunk < Len(r_chunks)
          /\ \A k \in 0..(r_steps[b].chunk - 1) : CallsOf(k) # << >>
    /\ \A k \in 0..(Len(r_translated_chunks) - 1) : r_translated_chunks[k + 1] = ResultOf(k)
    /\ Joined =>
          LET n == Len(r_chunks)
              text == r_combined_translation
          IN  /\ Len(r_translated_chunks) = n
              /\ Len(text) = EntryOffset(r_translated_chunks, n) + Len(r_translated_chunks[n])
              /\ \A k \in 1..n :
                    LET from == EntryOffset(r_translated_chunks, k)
                    IN  /\ PySlice(text, from, from + Len(r_translated_chunks[k]))
                              = r_translated_chunks[k]
                        /\ k > 1 => At(text, from - 1) = 32

\* a run of three chunks or more that assembled a translation, a fallback and a third
\* entry
C19_Witness ==
    /\ Joined
    /\ Len(r_chunks) >= 3
    /\ \E k \in 1..Len(r_chunks) : CallsOf(k - 1)[Len(CallsOf(k - 1))].result = "raise"
    /\ \E k \in 1..Len(r_chunks) : CallsOf(k - 1)[Len(CallsOf(k - 1))].result = "ok"
    /\ r_combined_translation # << >>

(***************************************************************************)
(* The claims about the spans the protectors replace (checked under        *)
(* SpecProtect)                                                            *)
(***************************************************************************)
\* all_matches at the start of the replacement loop of protect, before it is sorted
Selected(impl, t) ==
    IF impl = "core" THEN NameAllMatches(t, 1) ELSE PreserveAllMatches(t, 1, << >>)

\* C20: no double protection.  The spans protect selects for replacement are pairwise
\* non-overlapping, so no character of the text is covered by two of them, and a
\* detected match is left out only when it overlaps a match detected before it that was
\* selected; this for preserve_proper_nouns and for preserve_names_and_entities.
C20_NoDoubleProtection ==
    p_pc \notin {"idle", "input"} =>
        LET ms == Selected(p_impl, p_text)
            raw == RawMatches(p_impl, p_text)
        IN  /\ \A a, b \in 1..Len(ms) :
                  a # b => ms[a].end <= ms[b].start \/ ms[b].end <= ms[a].start
            /\ \A c \in 1..Len(raw) :
                  \/ \E a \in 1..Len(ms) : ms[a] = raw[c]
                  \/ \E d \in 1..(c - 1) :
                        /\ \E a \in 1..Len(ms) : ms[a] = raw[d]
                        /\ raw[c].start < raw[d].end /\ raw[d].start < raw[c].end

\* the replacement loop of protect over the sorted matches ms, from the working text and
\* the counter: at every turn the working text between the offsets of the match is the
\* text of the match
RECURSIVE SpansIntact(_, _, _, _)
SpansIntact(impl, ms, working, counter) ==
    IF ms = << >> THEN TRUE
    ELSE LET m == Head(ms)
             ph == IF impl = "core" THEN NamePlaceholder(counter)
                   ELSE ProperPlaceholder(counter, m.text)
         IN  /\ PySlice(working, m.start, m.end) = m.text
             /\ SpansIntact(impl, Tail(ms),
                            PySlice(working, 0, m.start) \o ph \o PyTail(working, m.end),
                            counter + 1)

\* C21: offset validity under descending replacement.  Protect replaces the selected
\* spans in descending start offset, and when a span is replaced the working text between
\* its recorded start and end offsets is still the matched text of the span.
C21_OffsetsValid ==
    p_pc \notin {"idle", "input"} =>
        LET ms == SortDesc(Selected(p_impl, p_text))
        IN  /\ \A a, b \in 1..Len(ms) : a < b => ms[a].start >= ms[b].start
            /\ SpansIntact(p_impl, ms, p_text, 0)

\* the text and the count after the first loop of restore_proper_nouns in the current run
AfterExactPass == ExactPass(p_map, [text |-> p_translated, count |-> 0])

\* C22: degraded pass only for missing placeholders.  When the exact-match pass of
\* restore_proper_nouns found every placeholder of the map intact and restored it, the
\* second pass changes nothing: the text returned is the text after the exact-match pass.
C22_DegradedPassOnlyForMissing ==
    (p_pc = "restored" /\ p_impl = "webapp" /\ AfterExactPass.count = Len(p_map))
        => p_restored = AfterExactPass.text

(***************************************************************************)
(* The claims about the cuts of the chunkers (checked under SpecChunk)     *)
(***************************************************************************)
\* C23: cuts only at sentence boundaries.  Every sentence of the text, as the split at
\* white space after '.', '!' or '?' gives it, lies whole in one chunk, a sentence longer
\* than the chunk size too; this for the chunking of both translate_text_chunks.
C23_CutsAtSentenceBoundaries ==
    c_pc = "chunked" =>
        LET sentences == SplitSentences(c_text, 0)
        IN  \A j \in 1..Len(sentences) :
                Strip(sentences[j]) # << >> =>
                    \E k \in 1..Len(c_chunks) : Contains(c_chunks[k], Strip(sentences[j]))

\* restore_proper_nouns of the current run with its diagnostic restored_count
Restored == RestoreProper(p_translated, p_map)

\* C24: restoration shortfall diagnostic.  restore_proper_nouns returns, restored_count
\* counts a placeholder at most once, so it is at most the size of the map, and it
\* differs from the size of the map exactly when the original text of a placeholder is
\* not in the returned text.
C24_RestoredCountDiagnostic ==
    (p_pc = "restored" /\ p_impl = "webapp") =>
        /\ p_restored = Restored.text
        /\ Restored.count <= Len(p_map)
        /\ Restored.count # Len(p_map)
              <=> \E k \in 1..Len(p_map) : ~Contains(p_restored, p_map[k][2])

(***************************************************************************)
(* The claims about the notifications and the records of the tasks         *)
(* (checked under SpecTasks)                                               *)
(***************************************************************************)
\* the notifications of a task that were sent: the calls of socketio.emit that returned
Delivered(k) ==
    LET Returned(note) == note[2]
    IN  SelectSeq(t_emitted[k], Returned)

\* one 'processing' and then one terminal notification with the stored status
Protocol(notes, stored) ==
    /\ Len(notes) = 2
    /\ notes[1][1] = "processing"
    /\ notes[2][1] \in {"completed", "failed"}
    /\ notes[2][1] = stored

\* C25: notification protocol.  For every task, the worker has emitted exactly one
\* 'processing' notification and nothing else while the pipeline run is about to start
\* or has just returned, and when the worker has ended it has emitted exactly that
\* 'processing' and then exactly one terminal notification, 'completed' or 'failed',
\* whose status is the stored status of the task; this either of the calls of
\* socketio.emit or of the calls that returned.
C25_NotificationProtocol ==
    \A k \in Tasks :
        /\ t_pc[k] \in {"translate", "store_completed"}
              => t_emitted[k] = << <<"processing", TRUE>> >>
        /\ t_pc[k] = "end"
              => \/ Protocol(t_emitted[k], t_active[k])
                 \/ Protocol(Delivered(k), t_active[k])

\* C26: terminal states are absorbing.  In every step, a task whose stored status is
\* 'completed' or 'failed' keeps that stored status.
C26_TerminalStatesAbsorbing ==
    [][\A k \in Tasks :
          t_active[k] \in {"completed", "failed"} => t_active'[k] = t_active[k]]_vars

\* the files of the upload with an allowed name
AllowedFiles == {j \in 1..Len(t_files) : allowed_file(t_files[j])}

\* the task ids in task_ids
Returned == {t_task_ids[n] : n \in 1..Len(t_task_ids)}

\* C27: a record before the worker.  In every state, a task whose worker thread was
\* started has a record in active_translations, and so has every task id in task_ids;
\* when upload_file is through with the files, task_ids has as many ids as the upload
\* has files with an allowed name and no other task has a record; and in every step, a
\* status request for a task id in task_ids is not answered 'Task not found'.
C27_RecordBeforeWorker ==
    /\ [](/\ \A k \in Tasks :
              /\ t_pc[k] \notin {"none", "stored"} => t_active[k] # "absent"
              /\ k \in Returned => t_active[k] # "absent"
          /\ t_i = Len(t_files)
              => /\ Len(t_task_ids) = Cardinality(AllowedFiles)
                 /\ Cardinality(Returned) = Len(t_task_ids)
                 /\ \A k \in Tasks : t_active[k] # "absent" => k \in Returned)
    /\ [][\A k \in Tasks :
              (k \in Returned /\ GetStatus(k)) => t_answer' # "Task not found"]_vars

\* an upload of a file that is not allowed and of an allowed one is through: one task id,
\* its worker has ended and a status request was answered 'completed'
C27_Witness ==
    /\ t_i = Len(t_files) /\ Len(t_files) = 2
    /\ \E j \in 1..2 : ~allowed_file(t_files[j])
    /\ t_task_ids = <<1>>
    /\ t_pc[1] = "end"
    /\ t_answer = "completed"

(***************************************************************************)
(* The claim about the output paths of a batch (checked under Spec)        *)
(***************************************************************************)
\* C28: distinct outputs in a batch.  In a call of batch_translate_pdfs, the paths in
\* translated_files, one for every file translated so far, differ from one another: no
\* two input files of the batch were written to the same output path.
C28_DistinctOutputs ==
    r_mode = "batch" =>
        \A a, b \in 1..Len(r_translated_files) :
            a # b => r_translated_files[a] # r_translated_files[b]
=============================================================================
